---------------------------- MODULE Spec2Model ----------------------------
(***************************************************************************)
(* Signal-to-order pipeline of the MEXC signal bot:                        *)
(*   - template parser (internal/signal, Parser.Parse)                     *)
(*   - risk gate       (internal/risk, SimpleManager)                      *)
(*   - orchestrator    (internal/engine, Engine.HandleMessage)             *)
(*   - executors       (internal/exchange, dry-run and MEXC REST)          *)
(*                                                                         *)
(* Time is counted in whole seconds.  A UTC day is DayLen seconds long, so *)
(* that day boundaries are reachable within the explored horizon.  Strings *)
(* the parser works on are sequences of one-character strings; notionals   *)
(* are integers.                                                           *)
(***************************************************************************)
EXTENDS Integers, Sequences, FiniteSets, TLC

(***************************************************************************)
(* Bounds of the exploration.                                              *)
(***************************************************************************)
MaxTime == 3        \* the clock stops advancing at this second
MaxCalls == 4       \* direct calls made by the risk-gate driver
MaxMsgs == 2        \* messages handled by concurrent handlers
MaxSeqMsgs == 3     \* messages handled by the single consumer
MaxUpdates == 3     \* updates the chat transport hands out in all
MaxLockCalls == 3   \* calls made by concurrent callers of the risk gate
NumHandlers == 2    \* concurrent HandleMessage invocations

(***************************************************************************)
(* Program constants.                                                      *)
(***************************************************************************)
DayLen == 3         \* 24 * time.Hour, scaled
ZeroTime == -1      \* the zero time.Time (dayAnchor.IsZero())
QueueCap == 2       \* capacity of msgCh (64), scaled
BatchLimit == 2     \* updates per fetch (MaxUpdateBatch), scaled

Handlers == 1..NumHandlers

VARIABLES
    clock,        \* wall clock, time.Now()
    cfg,          \* *config.Config (read-only after construction)
    lastTrade,    \* SimpleManager.lastTrade : symbol -> time
    dailyTrades,  \* SimpleManager.dailyTrades
    dayAnchor,    \* SimpleManager.dayAnchor
    mu,           \* SimpleManager.mu : 0 when free, else the holder
    hs,           \* per HandleMessage invocation: position and locals
    nextMsg,      \* identifier of the next inbound message
    msgLog,       \* history: per message, the calls made and the outcome
    gateCall,     \* the last direct call of the risk-gate driver
    nCalls,       \* number of direct calls made so far
    hEvald,       \* history: symbols evaluated with a positive notional
    hLast,        \* history: symbol -> its latest recordExecution
    hDay,         \* history: UTC day of the latest recordExecution
    hCount,       \* history: recordExecution calls made on day hDay
    call,         \* a function applied on its own: name, arguments, result
    msgCh,        \* main: the buffered channel between listener and consumer
    chClosed,     \* main: close(msgCh) was executed
    ctxDone,      \* main: the context was cancelled (shutdown signalled)
    listener,     \* telegram Listener.Run: position, fetched updates, offset
    consumer,     \* main: the consumer goroutine, "select" until it returned
    delivered,    \* history: messages the listener put on msgCh
    handled       \* history: messages HandleMessage was invoked with

vars == << clock, cfg, lastTrade, dailyTrades, dayAnchor, mu, hs, nextMsg,
           msgLog, gateCall, nCalls, hEvald, hLast, hDay, hCount, call,
           msgCh, chClosed, ctxDone, listener, consumer, delivered, handled >>

mainVars == << msgCh, chClosed, ctxDone, listener, consumer, delivered,
              handled >>

programVars == << clock, cfg, lastTrade, dailyTrades, dayAnchor, mu, hs, nextMsg,
                  msgLog, gateCall, nCalls, hEvald, hLast, hDay, hCount,
                  mainVars >>

riskVars == << lastTrade, dailyTrades, dayAnchor >>
histVars == << hEvald, hLast, hDay, hCount >>
gateVars == << gateCall, nCalls >>
pipeVars == << hs, nextMsg, msgLog >>

EmptyMap == [s \in {} |-> 0]

MapSet(m, k, v) == [s \in (DOMAIN m) \cup {k} |-> IF s = k THEN v ELSE m[s]]

(***************************************************************************)
(* Strings (package strings), on sequences of characters.                  *)
(***************************************************************************)
Lower == <<"a", "b", "c", "e", "h", "m", "o">>
Upper == <<"A", "B", "C", "E", "H", "M", "O">>

UpperChar(c) ==
    IF \E i \in 1..Len(Lower) : Lower[i] = c
    THEN Upper[CHOOSE i \in 1..Len(Lower) : Lower[i] = c]
    ELSE c

ToUpper(s) == [i \in 1..Len(s) |-> UpperChar(s[i])]

EqualFold(s, t) == ToUpper(s) = ToUpper(t)

HasPrefix(s, p) == Len(p) <= Len(s) /\ SubSeq(s, 1, Len(p)) = p

TrimPrefix(s, p) == IF HasPrefix(s, p) THEN SubSeq(s, Len(p) + 1, Len(s)) ELSE s

Contains(s, p) ==
    \E i \in 1..(Len(s) - Len(p) + 1) : SubSeq(s, i, i + Len(p) - 1) = p

\* strings.Index, 1-based; 0 when absent
Index(s, p) ==
    IF Contains(s, p)
    THEN CHOOSE i \in 1..(Len(s) - Len(p) + 1) :
            /\ SubSeq(s, i, i + Len(p) - 1) = p
            /\ \A j \in 1..(i - 1) : SubSeq(s, j, j + Len(p) - 1) # p
    ELSE 0

RECURSIVE TrimLeft(_, _)
TrimLeft(s, cutset) ==
    IF s # <<>> /\ Head(s) \in cutset THEN TrimLeft(Tail(s), cutset) ELSE s

RECURSIVE TrimRight(_, _)
TrimRight(s, cutset) ==
    IF s # <<>> /\ s[Len(s)] \in cutset
    THEN TrimRight(SubSeq(s, 1, Len(s) - 1), cutset)
    ELSE s

Trim(s, cutset) == TrimRight(TrimLeft(s, cutset), cutset)

WhiteSpace == {" ", "\t", "\n", "\r"}

TrimSpace(s) == Trim(s, WhiteSpace)

\* strings.Fields: the maximal runs of non-space characters
RECURSIVE Fields(_)
Fields(s) ==
    LET t == TrimLeft(s, WhiteSpace)
    IN  IF t = <<>> THEN <<>>
        ELSE LET n == IF \E i \in 1..Len(t) : t[i] \in WhiteSpace
                      THEN (CHOOSE i \in 1..Len(t) :
                               /\ t[i] \in WhiteSpace
                               /\ \A j \in 1..(i - 1) : t[j] \notin WhiteSpace)
                           - 1
                      ELSE Len(t)
             IN  <<SubSeq(t, 1, n)>> \o Fields(SubSeq(t, n + 1, Len(t)))

\* strings.ReplaceAll for a non-empty old (leftmost, non-overlapping)
RECURSIVE ReplaceAll(_, _, _)
ReplaceAll(s, old, new) ==
    IF old = <<>> \/ ~Contains(s, old) THEN s
    ELSE LET i == Index(s, old)
         IN  SubSeq(s, 1, i - 1) \o new
               \o ReplaceAll(SubSeq(s, i + Len(old), Len(s)), old, new)

(***************************************************************************)
(* net/url.Parse, as far as Parser.extractLink depends on it: the fragment *)
(* and the query are cut off, the scheme is split at the first ':', the    *)
(* authority is what follows "//" up to the next '/', and the path is      *)
(* percent-decoded.  Of the escapes only %5F is in the alphabet.           *)
(***************************************************************************)
Letters == {Lower[i] : i \in 1..Len(Lower)} \cup {Upper[i] : i \in 1..Len(Upper)}
SchemeChars == {"5", "+", "-", "."}

CutBefore(s, c) ==
    IF Contains(s, <<c>>) THEN SubSeq(s, 1, Index(s, <<c>>) - 1) ELSE s

CutAfter(s, c) ==
    IF Contains(s, <<c>>) THEN SubSeq(s, Index(s, <<c>>) + 1, Len(s)) ELSE <<>>

\* url.getScheme: [scheme, rest, err]
RECURSIVE getSchemeAt(_, _)
getSchemeAt(s, i) ==
    IF i > Len(s) THEN [scheme |-> <<>>, rest |-> s, err |-> FALSE]
    ELSE IF s[i] \in Letters THEN getSchemeAt(s, i + 1)
    ELSE IF s[i] \in SchemeChars
         THEN IF i = 1 THEN [scheme |-> <<>>, rest |-> s, err |-> FALSE]
              ELSE getSchemeAt(s, i + 1)
    ELSE IF s[i] = ":"
         THEN IF i = 1 THEN [scheme |-> <<>>, rest |-> <<>>, err |-> TRUE]
              ELSE [scheme |-> SubSeq(s, 1, i - 1),
                    rest |-> SubSeq(s, i + 1, Len(s)), err |-> FALSE]
    ELSE [scheme |-> <<>>, rest |-> s, err |-> FALSE]

\* url.unescape in path mode
RECURSIVE unescape(_)
unescape(s) ==
    IF s = <<>> THEN [ok |-> TRUE, val |-> <<>>]
    ELSE IF Head(s) = "%"
         THEN IF Len(s) >= 3 /\ s[2] = "5" /\ s[3] = "F"
              THEN LET r == unescape(SubSeq(s, 4, Len(s)))
                   IN  [ok |-> r.ok, val |-> <<"_">> \o r.val]
              ELSE [ok |-> FALSE, val |-> <<>>]
         ELSE LET r == unescape(Tail(s))
              IN  [ok |-> r.ok, val |-> <<Head(s)>> \o r.val]

NoURL == [ok |-> FALSE, Host |-> <<>>, Path |-> <<>>]

urlParse(rawURL) ==
    LET u == CutBefore(rawURL, "#")
        g == getSchemeAt(u, 1)
        rest == CutBefore(g.rest, "?")
    IN  IF g.err THEN NoURL
        ELSE IF ~HasPrefix(rest, <<"/">>)
             THEN IF g.scheme # <<>>
                  THEN [ok |-> TRUE, Host |-> <<>>, Path |-> <<>>]   \* opaque
                  ELSE IF Contains(CutBefore(rest, "/"), <<":">>)
                       THEN NoURL   \* first path segment cannot contain colon
                       ELSE LET p == unescape(rest)
                            IN  IF p.ok
                                THEN [ok |-> TRUE, Host |-> <<>>, Path |-> p.val]
                                ELSE NoURL
             ELSE IF HasPrefix(rest, <<"/", "/">>)
                     /\ (g.scheme # <<>> \/ ~HasPrefix(rest, <<"/", "/", "/">>))
                  THEN LET r2 == SubSeq(rest, 3, Len(rest))
                           auth == CutBefore(r2, "/")
                           path == SubSeq(r2, Len(auth) + 1, Len(r2))
                           p == unescape(path)
                       IN  IF p.ok /\ ~Contains(auth, <<"%">>)
                           THEN [ok |-> TRUE, Host |-> auth, Path |-> p.val]
                           ELSE NoURL
                  ELSE LET p == unescape(rest)
                       IN  IF p.ok
                           THEN [ok |-> TRUE, Host |-> <<>>, Path |-> p.val]
                           ELSE NoURL

(***************************************************************************)
(* signal.Parser                                                           *)
(***************************************************************************)
ParseOK(symbol, pairCode) ==
    [err |-> "", Symbol |-> symbol, PairCode |-> pairCode]

ParseErr(e) == [err |-> e, Symbol |-> <<>>, PairCode |-> <<>>]

\* variant: only the first required token is looked for
requireTokensFirstOnly(pcfg, text) ==
    pcfg.RequiredTokens = <<>> \/ Contains(text, pcfg.RequiredTokens[1])

\* Parser.requireTokens
requireTokens(pcfg, text) ==
    \A i \in 1..Len(pcfg.RequiredTokens) : Contains(text, pcfg.RequiredTokens[i])

LinkPunct == {" ", "\t", "\n", "\r", ",", ".", ";", "!"}

\* Parser.extractLink, over the remaining segments
RECURSIVE extractLinkFrom(_, _)
extractLinkFrom(pcfg, segments) ==
    IF segments = <<>> THEN NoURL
    ELSE LET segment == Head(segments)
             u == urlParse(Trim(segment, LinkPunct))
         IN  IF /\ Contains(segment, <<":", "/", "/">>)
                /\ u.ok
                /\ EqualFold(u.Host, pcfg.LinkHost)
                /\ HasPrefix(u.Path, pcfg.LinkPathPrefix)
             THEN u
             ELSE extractLinkFrom(pcfg, Tail(segments))

Reverse(s) == [i \in 1..Len(s) |-> s[Len(s) + 1 - i]]

\* variant: the segments are gone through from the last one
extractLinkFromEnd(pcfg, text) == extractLinkFrom(pcfg, Reverse(Fields(text)))

extractLink(pcfg, text) == extractLinkFrom(pcfg, Fields(text))

\* Parser.resolvePair: [err, pair]
resolvePair(pcfg, link) ==
    LET raw0 == TrimPrefix(link.Path, pcfg.LinkPathPrefix)
        raw == Trim(raw0, {"/"})
        sep == pcfg.PairSeparator
        upper == ToUpper(raw)
    IN  IF raw0 = <<>> THEN [err |-> "errMissingSymbol", pair |-> <<>>]
        ELSE IF sep = <<>> THEN [err |-> "errInvalidSeparator", pair |-> <<>>]
        ELSE IF ~Contains(upper, ToUpper(sep))
             THEN [err |-> "pair does not contain separator", pair |-> <<>>]
        ELSE [err |-> "",
              pair |-> ReplaceAll(ReplaceAll(upper, <<"-">>, sep),
                                  <<"%", "5", "F">>, sep)]

\* Parser.Parse
Parse(pcfg, msgText) ==
    LET text == TrimSpace(msgText)
    IN  IF text = <<>> THEN ParseErr("empty message body")
        ELSE IF ~requireTokens(pcfg, text) THEN ParseErr("errMissingToken")
        ELSE LET link == extractLink(pcfg, text)
             IN  IF ~link.ok THEN ParseErr("errMissingLink")
                 ELSE LET rp == resolvePair(pcfg, link)
                          symbol == ToUpper(ReplaceAll(rp.pair,
                                                       pcfg.PairSeparator, <<>>))
                      IN  IF rp.err # "" THEN ParseErr(rp.err)
                          ELSE IF symbol = <<>>
                               THEN ParseErr("errMissingSymbol")
                               ELSE ParseOK(symbol, ToUpper(rp.pair))

(***************************************************************************)
(* risk.Decision.  Unset fields keep Go's zero values.                     *)
(***************************************************************************)
Decision(allow, reason, notional) ==
    [Allow |-> allow, Reason |-> reason, Notional |-> notional]

NoDecision == Decision(FALSE, "", 0)

RiskState == [lastTrade |-> lastTrade, dailyTrades |-> dailyTrades,
              dayAnchor |-> dayAnchor]

\* now.UTC().Truncate(24 * time.Hour)
Truncate(t) == t - (t % DayLen)

(***************************************************************************)
(* SimpleManager.resetDay                                                  *)
(***************************************************************************)
\* variant: a new day zeroes the counter but keeps the timestamps
resetDayKeepsTimestamps(st, now) ==
    IF st.dayAnchor = ZeroTime
    THEN [st EXCEPT !.dayAnchor = Truncate(now)]
    ELSE IF Truncate(now) > st.dayAnchor
         THEN [st EXCEPT !.dailyTrades = 0, !.dayAnchor = Truncate(now)]
         ELSE st

resetDay(st, now) ==
    IF st.dayAnchor = ZeroTime
    THEN [st EXCEPT !.dayAnchor = Truncate(now)]
    ELSE IF Truncate(now) > st.dayAnchor
         THEN [lastTrade |-> EmptyMap, dailyTrades |-> 0,
               dayAnchor |-> Truncate(now)]
         ELSE st

(***************************************************************************)
(* SimpleManager.Evaluate.  evaluateLocked is the part run under the mutex *)
(* with the clock value read before locking; Evaluate is the whole call.   *)
(* Both give the state left behind and the Decision returned.              *)
(***************************************************************************)
\* variant: the daily cap is tested before the cooldown
evaluateChecksCapFirst(rc, r, sym, desiredNotional, now) ==
    IF /\ rc.MaxDailyTrades > 0
       /\ r.dailyTrades >= rc.MaxDailyTrades
    THEN Decision(FALSE, "daily_trade_limit", 0)
    ELSE IF /\ rc.CooldownSeconds > 0
            /\ sym \in DOMAIN r.lastTrade
            /\ now - r.lastTrade[sym] < rc.CooldownSeconds
         THEN Decision(FALSE, "cooldown_active", 0)
         ELSE Decision(TRUE, "", desiredNotional)

\* variant: the daily cap is not tested
evaluateChecksWithoutCap(rc, r, sym, desiredNotional, now) ==
    IF /\ rc.CooldownSeconds > 0
       /\ sym \in DOMAIN r.lastTrade
       /\ now - r.lastTrade[sym] < rc.CooldownSeconds
    THEN Decision(FALSE, "cooldown_active", 0)
    ELSE Decision(TRUE, "", desiredNotional)

evaluateChecks(rc, r, sym, desiredNotional, now) ==
    IF /\ rc.CooldownSeconds > 0
       /\ sym \in DOMAIN r.lastTrade
       /\ now - r.lastTrade[sym] < rc.CooldownSeconds
    THEN Decision(FALSE, "cooldown_active", 0)
    ELSE IF /\ rc.MaxDailyTrades > 0
            /\ r.dailyTrades >= rc.MaxDailyTrades
         THEN Decision(FALSE, "daily_trade_limit", 0)
         ELSE Decision(TRUE, "", desiredNotional)

\* variant: the daily cap compared with > instead of >=
evaluateLockedOffByOne(rc, st, sym, desiredNotional, now) ==
    LET r == resetDay(st, now)
    IN  [st |-> r,
         decision |->
            IF /\ rc.CooldownSeconds > 0
               /\ sym \in DOMAIN r.lastTrade
               /\ now - r.lastTrade[sym] < rc.CooldownSeconds
            THEN Decision(FALSE, "cooldown_active", 0)
            ELSE IF /\ rc.MaxDailyTrades > 0
                    /\ r.dailyTrades > rc.MaxDailyTrades
                 THEN Decision(FALSE, "daily_trade_limit", 0)
                 ELSE Decision(TRUE, "", desiredNotional)]

\* variant: an allowed evaluation reserves the symbol's cooldown slot
evaluateLockedReserving(rc, st, sym, desiredNotional, now) ==
    LET r == resetDay(st, now)
        d == evaluateChecks(rc, r, sym, desiredNotional, now)
    IN  [st |-> IF d.Allow
                THEN [r EXCEPT !.lastTrade = MapSet(r.lastTrade, sym, now)]
                ELSE r,
         decision |-> d]

\* variant: an allowed evaluation counts against the daily cap
evaluateLockedCounting(rc, st, sym, desiredNotional, now) ==
    LET r == resetDay(st, now)
        d == evaluateChecks(rc, r, sym, desiredNotional, now)
    IN  [st |-> IF d.Allow
                THEN [r EXCEPT !.dailyTrades = r.dailyTrades + 1]
                ELSE r,
         decision |-> d]

evaluateLocked(rc, st, sym, desiredNotional, now) ==
    LET r == resetDay(st, now)
    IN  [st |-> r,
         decision |-> evaluateChecks(rc, r, sym, desiredNotional, now)]

nonPositive(desiredNotional) == desiredNotional <= 0

NonPositiveDecision == Decision(FALSE, "non-positive notional", 0)

Evaluate(rc, st, sym, desiredNotional, now) ==
    IF nonPositive(desiredNotional)
    THEN [st |-> st, decision |-> NonPositiveDecision]
    ELSE evaluateLocked(rc, st, sym, desiredNotional, now)

(***************************************************************************)
(* SimpleManager.RecordExecution, the part run under the mutex.            *)
(***************************************************************************)
recordLocked(st, sym, now) ==
    LET r == resetDay(st, now)
    IN  [r EXCEPT !.lastTrade = MapSet(r.lastTrade, sym, now),
                  !.dailyTrades = r.dailyTrades + 1]

(***************************************************************************)
(* Engine.resolveNotional, Engine.resolveOrderType                         *)
(***************************************************************************)
\* variant: an override's default is taken whatever its value
resolveNotionalTakesOverride(c, symbol) ==
    LET d == c.Trading.DefaultBaseNotional
        s1 == IF symbol \in DOMAIN c.Overrides
              THEN c.Overrides[symbol].DefaultBaseNotional
              ELSE d
        s2 == IF /\ symbol \in DOMAIN c.Overrides
                 /\ c.Overrides[symbol].MaxNotional > 0
                 /\ s1 > c.Overrides[symbol].MaxNotional
              THEN c.Overrides[symbol].MaxNotional
              ELSE s1
    IN  IF s2 > c.Trading.MaxNotional THEN c.Trading.MaxNotional ELSE s2

\* variant: the override's own maximum is not applied
resolveNotionalUncapped(c, symbol) ==
    LET d == c.Trading.DefaultBaseNotional
        s1 == IF symbol \in DOMAIN c.Overrides
                 /\ c.Overrides[symbol].DefaultBaseNotional > 0
              THEN c.Overrides[symbol].DefaultBaseNotional
              ELSE d
    IN  IF s1 > c.Trading.MaxNotional THEN c.Trading.MaxNotional ELSE s1

resolveNotional(c, symbol) ==
    LET d == c.Trading.DefaultBaseNotional
        s1 == IF symbol \in DOMAIN c.Overrides
                 /\ c.Overrides[symbol].DefaultBaseNotional > 0
              THEN c.Overrides[symbol].DefaultBaseNotional
              ELSE d
        s2 == IF /\ symbol \in DOMAIN c.Overrides
                 /\ c.Overrides[symbol].MaxNotional > 0
                 /\ s1 > c.Overrides[symbol].MaxNotional
              THEN c.Overrides[symbol].MaxNotional
              ELSE s1
    IN  IF s2 > c.Trading.MaxNotional THEN c.Trading.MaxNotional ELSE s2

resolveOrderType(c) ==
    IF c.Trading.OrderType = "limit" THEN "LIMIT" ELSE "MARKET"

(***************************************************************************)
(* Executors.  Submit gives [err, ack, sends]: sends counts the order      *)
(* requests put on the wire.                                               *)
(***************************************************************************)
NoAck == [OrderID |-> "", SubmittedAt |-> 0]

\* variant: a zero notional is accepted
DryRunSubmitAcceptsZero(req, now) ==
    IF req.Notional < 0
    THEN [err |-> "invalid notional", ack |-> NoAck, sends |-> 0]
    ELSE [err |-> "", ack |-> [OrderID |-> "dry-run", SubmittedAt |-> now],
          sends |-> 0]

\* DryRunExecutor.Submit
DryRunSubmit(req, now) ==
    IF req.Notional <= 0
    THEN [err |-> "invalid notional", ack |-> NoAck, sends |-> 0]
    ELSE [err |-> "", ack |-> [OrderID |-> "dry-run", SubmittedAt |-> now],
          sends |-> 0]

\* What the exchange (or the network) answers to one order request.
Responses ==
    { [transport |-> "error", StatusCode |-> 0, decodable |-> FALSE,
       Code |-> 0] }
    \cup [transport : {"ok"}, StatusCode : {200, 400},
          decodable : BOOLEAN, Code : {0, 200, 30005}]

\* variant: the application code embedded in a 200 body is not looked at
submitSpotIgnoresCode(req, resp) ==
    IF resp.transport # "ok"
    THEN [err |-> "transport", ack |-> NoAck, sends |-> 1]
    ELSE IF resp.StatusCode # 200
         THEN [err |-> "order rejected", ack |-> NoAck, sends |-> 1]
    ELSE IF ~resp.decodable
         THEN [err |-> "decode order response", ack |-> NoAck, sends |-> 1]
    ELSE [err |-> "", ack |-> [OrderID |-> "id", SubmittedAt |-> 0],
          sends |-> 1]

\* mexc Executor.submitSpot, from client.Do on
submitSpot(req, resp) ==
    IF resp.transport # "ok"
    THEN [err |-> "transport", ack |-> NoAck, sends |-> 1]
    ELSE IF resp.StatusCode # 200
         THEN [err |-> "order rejected", ack |-> NoAck, sends |-> 1]
    ELSE IF ~resp.decodable
         THEN [err |-> "decode order response", ack |-> NoAck, sends |-> 1]
    ELSE IF resp.Code # 0 /\ resp.Code # 200
         THEN [err |-> "order error", ack |-> NoAck, sends |-> 1]
    ELSE [err |-> "", ack |-> [OrderID |-> "id", SubmittedAt |-> 0],
          sends |-> 1]

\* mexc Executor.Submit
mexcSubmit(c, req, resp) ==
    IF c.Mode.MarketType = "spot"
    THEN submitSpot(req, resp)
    ELSE [err |-> "market not yet supported", ack |-> NoAck, sends |-> 0]

\* main: the executor chosen at startup
Submit(c, req, resp, now) ==
    IF c.Debug.DryRun THEN DryRunSubmit(req, now) ELSE mexcSubmit(c, req, resp)

\* every result Submit can give for one request
SubmitResults(c, req, now) == { Submit(c, req, resp, now) : resp \in Responses }

(***************************************************************************)
(* Configurations.                                                         *)
(***************************************************************************)
SymAB == <<"A", "B">>
SymCB == <<"C", "B">>
Symbols == {SymAB, SymCB}

ParserConfig ==
    [RequiredTokens |-> << <<"G", "O">> >>,
     LinkHost |-> <<"m", ".", "c">>,
     LinkPathPrefix |-> <<"/", "e", "/">>,
     PairSeparator |-> <<"_">>]

TradingConfig ==
    [DefaultBaseNotional |-> 1, MaxNotional |-> 2, OrderType |-> "market",
     SlippageBps |-> 0]

OverridesConfig ==
    [s \in {SymAB} |-> [MaxNotional |-> 0, DefaultBaseNotional |-> 2]]

MakeConfig(risk, dry) ==
    [Risk |-> risk, Trading |-> TradingConfig, Overrides |-> OverridesConfig,
     Parser |-> ParserConfig, Debug |-> [DryRun |-> dry],
     Mode |-> [MarketType |-> "spot"], Telegram |-> [Enabled |-> TRUE]]

\* configurations accepted by Config.Validate, as loaded by main
PipelineConfigs ==
    { MakeConfig(r, d) :
        r \in [CooldownSeconds : {2}, MaxDailyTrades : {2}],
        d \in BOOLEAN }

\* risk configurations a SimpleManager can be constructed with
GateConfigs ==
    { MakeConfig(r, TRUE) :
        r \in [CooldownSeconds : {0, 2}, MaxDailyTrades : {0, 2}] }

Notionals == { -1, 0, 1, 2 }

\* inbound message texts
TextAB == <<"G", "O", " ", "h", ":", "/", "/", "m", ".", "c",
            "/", "e", "/", "A", "_", "B">>
TextCB == <<"G", "O", " ", "h", ":", "/", "/", "M", ".", "c",
            "/", "e", "/", "c", "_", "b">>
TextNoToken == <<"h", ":", "/", "/", "m", ".", "c", "/", "e", "/", "A", "_", "B">>
TextNoLink == <<"G", "O", " ", "h", ":", "/", "/", "o", ".", "c",
                "/", "e", "/", "A", "_", "B">>

PipelineTexts == {TextAB, TextCB, TextNoToken}

(***************************************************************************)
(* History of executions, kept beside the program state.  For each symbol: *)
(* the time of its latest recordExecution, whether an evaluate of that      *)
(* symbol came before it, how many there were, and the distance to the     *)
(* previous one.                                                           *)
(***************************************************************************)
NoteExecution(sym, now) ==
    /\ hLast' = MapSet(hLast, sym,
                       [at |-> now,
                        afterEval |-> sym \in hEvald,
                        n |-> IF sym \in DOMAIN hLast
                              THEN hLast[sym].n + 1 ELSE 1,
                        gap |-> IF sym \in DOMAIN hLast
                                THEN now - hLast[sym].at ELSE 0])
    /\ hDay' = Truncate(now)
    /\ hCount' = IF hDay = Truncate(now) THEN hCount + 1 ELSE 1

IdleHandler ==
    [pc |-> "idle", msg |-> 0, sig |-> ParseErr(""), notional |-> 0,
     now |-> 0, decision |-> NoDecision]

\* no function is being applied on its own
Idle == [fn |-> "none", arg |-> <<>>, done |-> FALSE, out |-> <<>>]

NoCall == [op |-> "none", sym |-> <<>>, notional |-> 0, now |-> 0,
           decision |-> NoDecision, pre |-> RiskState]

Constructed(configs) ==
    /\ clock = 0
    /\ cfg \in configs
    /\ lastTrade = EmptyMap
    /\ dailyTrades = 0
    /\ dayAnchor = ZeroTime
    /\ mu = 0
    /\ hs = [h \in Handlers |-> IdleHandler]
    /\ nextMsg = 1
    /\ msgLog = <<>>
    /\ gateCall = NoCall
    /\ nCalls = 0
    /\ hEvald = {}
    /\ hLast = EmptyMap
    /\ hDay = ZeroTime
    /\ hCount = 0
    /\ msgCh = <<>>
    /\ chClosed = FALSE
    /\ ctxDone = FALSE
    /\ listener = [pc |-> "poll", updates |-> <<>>, offset |-> 1]
    /\ consumer = "select"
    /\ delivered = <<>>
    /\ handled = <<>>

InitWith(configs) == Constructed(configs) /\ call = Idle

Init == InitWith(PipelineConfigs)

GateInit == InitWith(GateConfigs)

\* The wall clock advances.
Tick ==
    /\ clock < MaxTime
    /\ clock' = clock + 1
    /\ UNCHANGED << cfg, call, mainVars, riskVars, mu, pipeVars, gateVars, histVars >>

SetRisk(st) ==
    /\ lastTrade' = st.lastTrade
    /\ dailyTrades' = st.dailyTrades
    /\ dayAnchor' = st.dayAnchor

(***************************************************************************)
(* The risk gate driven directly, one whole call at a time.                *)
(***************************************************************************)
GateEvaluate(sym, n) ==
    /\ nCalls < MaxCalls
    /\ mu = 0
    /\ nCalls' = nCalls + 1
    /\ LET r == Evaluate(cfg.Risk, RiskState, sym, n, clock)
       IN  /\ SetRisk(r.st)
           /\ gateCall' = [op |-> "evaluate", sym |-> sym, notional |-> n,
                           now |-> clock, decision |-> r.decision,
                           pre |-> RiskState]
    /\ hEvald' = IF n > 0 THEN hEvald \cup {sym} ELSE hEvald
    /\ UNCHANGED << clock, cfg, call, mainVars, mu, pipeVars, hLast, hDay, hCount >>

GateRecord(sym, n) ==
    /\ nCalls < MaxCalls
    /\ mu = 0
    /\ nCalls' = nCalls + 1
    /\ SetRisk(recordLocked(RiskState, sym, clock))
    /\ gateCall' = [op |-> "record", sym |-> sym, notional |-> n,
                    now |-> clock, decision |-> NoDecision,
                    pre |-> RiskState]
    /\ NoteExecution(sym, clock)
    /\ UNCHANGED << clock, cfg, call, mainVars, mu, pipeVars, hEvald >>

GateNext ==
    \/ Tick
    \/ \E sym \in Symbols, n \in Notionals : GateEvaluate(sym, n)
    \/ \E sym \in Symbols : GateRecord(sym, 1)

GateSpec == GateInit /\ [][GateNext]_vars

(***************************************************************************)
(* Engine.HandleMessage, one invocation per handler h.  The steps are the  *)
(* points where an invocation touches the clock, the mutex, the risk state *)
(* or the executor.                                                        *)
(***************************************************************************)
NewLog(sig) ==
    [sym |-> sig.Symbol, parseErr |-> sig.err, evals |-> 0, submits |-> 0,
     sends |-> 0, records |-> 0, recSym |-> <<>>, recNotional |-> 0,
     landed |-> 0,
     decision |-> NoDecision, acked |-> FALSE,
     result |-> IF sig.err # "" THEN "parse signal" ELSE "running"]

\* the handler and the log entry after lines 183-185 and the entry of
\* Evaluate (lines 46-50): fail fast, else read the clock
Evaluating(sig, id, now) ==
    LET notional == resolveNotional(cfg, sig.Symbol)
    IN  IF nonPositive(notional)
        THEN [handler |-> IdleHandler,
              log |-> [NewLog(sig) EXCEPT !.evals = 1,
                                          !.decision = NonPositiveDecision,
                                          !.result = "nil"]]
        ELSE [handler |-> [pc |-> "eval_lock", msg |-> id, sig |-> sig,
                           notional |-> notional, now |-> now,
                           decision |-> NoDecision],
              log |-> [NewLog(sig) EXCEPT !.evals = 1, !.result = "running"]]

\* variant: the parse error is not checked
HandleMessageIgnoresParseError(h, text) ==
    /\ hs[h].pc = "idle"
    /\ nextMsg' = nextMsg + 1
    /\ LET sig == Parse(cfg.Parser, text)
           e == Evaluating(sig, nextMsg, clock)
       IN  /\ msgLog' = Append(msgLog, e.log)
           /\ hs' = [hs EXCEPT ![h] = e.handler]
    /\ UNCHANGED << clock, cfg, call, riskVars, mu, gateVars, histVars >>

\* lines 178-185: parse, size the order, enter Evaluate
HandleMessage(h, text) ==
    /\ hs[h].pc = "idle"
    /\ nextMsg' = nextMsg + 1
    /\ LET sig == Parse(cfg.Parser, text)
           e == Evaluating(sig, nextMsg, clock)
       IN  IF sig.err # ""
           THEN /\ msgLog' = Append(msgLog, NewLog(sig))
                /\ hs' = hs
           ELSE /\ msgLog' = Append(msgLog, e.log)
                /\ hs' = [hs EXCEPT ![h] = e.handler]
    /\ UNCHANGED << clock, cfg, call, riskVars, mu, gateVars, histVars >>

\* variant: Evaluate does not wait for the mutex
EvaluateAcquireUnguarded(h) ==
    /\ hs[h].pc = "eval_lock"
    /\ mu' = h
    /\ hs' = [hs EXCEPT ![h].pc = "eval_locked"]
    /\ UNCHANGED << clock, cfg, call, mainVars, riskVars, nextMsg, msgLog, gateVars,
                    histVars >>

\* Evaluate line 51: m.mu.Lock()
EvaluateAcquire(h) ==
    /\ hs[h].pc = "eval_lock"
    /\ mu = 0
    /\ mu' = h
    /\ hs' = [hs EXCEPT ![h].pc = "eval_locked"]
    /\ UNCHANGED << clock, cfg, call, mainVars, riskVars, nextMsg, msgLog, gateVars,
                    histVars >>

\* variant: decision.Allow is not checked
EvaluateCriticalIgnoresDenial(h) ==
    /\ hs[h].pc = "eval_locked"
    /\ LET r == evaluateLocked(cfg.Risk, RiskState, hs[h].sig.Symbol,
                               hs[h].notional, hs[h].now)
       IN  /\ SetRisk(r.st)
           /\ hs' = [hs EXCEPT ![h].pc = "submit",
                               ![h].decision = r.decision]
           /\ msgLog' = [msgLog EXCEPT ![hs[h].msg].decision = r.decision]
    /\ mu' = 0
    /\ hEvald' = hEvald \cup {hs[h].sig.Symbol}
    /\ UNCHANGED << clock, cfg, call, mainVars, nextMsg, gateVars, hLast, hDay, hCount >>

\* Evaluate lines 54-72 with the deferred unlock, then lines 186-192
EvaluateCritical(h) ==
    /\ hs[h].pc = "eval_locked"
    /\ LET r == evaluateLocked(cfg.Risk, RiskState, hs[h].sig.Symbol,
                               hs[h].notional, hs[h].now)
       IN  /\ SetRisk(r.st)
           /\ IF r.decision.Allow
              THEN /\ hs' = [hs EXCEPT ![h].pc = "submit",
                                       ![h].decision = r.decision]
                   /\ msgLog' = [msgLog EXCEPT
                                   ![hs[h].msg].decision = r.decision]
              ELSE /\ hs' = [hs EXCEPT ![h] = IdleHandler]
                   /\ msgLog' = [msgLog EXCEPT
                                   ![hs[h].msg].decision = r.decision,
                                   ![hs[h].msg].result = "nil"]
    /\ mu' = 0
    /\ hEvald' = hEvald \cup {hs[h].sig.Symbol}
    /\ UNCHANGED << clock, cfg, call, mainVars, nextMsg, gateVars, hLast, hDay, hCount >>

\* lines 194-203
OrderRequest(c, h) ==
    [Symbol |-> hs[h].sig.Symbol, Notional |-> hs[h].decision.Notional,
     Side |-> "BUY", Type |-> resolveOrderType(c),
     SlippageBps |-> c.Trading.SlippageBps,
     Metadata |-> hs[h].msg]

\* the log entry after Submit returned r
Submitted(h, r) ==
    [msgLog EXCEPT ![hs[h].msg].submits = @ + 1,
                   ![hs[h].msg].sends = @ + r.sends,
                   ![hs[h].msg].acked = (r.err = ""),
                   ![hs[h].msg].result = IF r.err # ""
                                         THEN "order submission failed"
                                         ELSE @]

\* line 210 and the entry of RecordExecution (line 76): read the clock
Recording(h, log) ==
    /\ hs' = [hs EXCEPT ![h].pc = "rec_lock", ![h].now = clock]
    /\ msgLog' = [log EXCEPT
                    ![hs[h].msg].records = @ + 1,
                    ![hs[h].msg].recSym = hs[h].sig.Symbol,
                    ![hs[h].msg].recNotional = hs[h].decision.Notional]

\* variant: the handler returns right after a successful Submit
SubmitOrderSkipsRecord(h, r) ==
    /\ hs[h].pc = "submit"
    /\ r \in SubmitResults(cfg, OrderRequest(cfg, h), clock)
    /\ hs' = [hs EXCEPT ![h] = IdleHandler]
    /\ msgLog' = [Submitted(h, r) EXCEPT
                    ![hs[h].msg].result = IF r.err = "" THEN "nil" ELSE @]
    /\ UNCHANGED << clock, cfg, call, mainVars, riskVars, mu, nextMsg, gateVars, histVars >>

\* variant: the Submit error is not checked
SubmitOrderRecordsOnFailure(h, r) ==
    /\ hs[h].pc = "submit"
    /\ r \in SubmitResults(cfg, OrderRequest(cfg, h), clock)
    /\ Recording(h, Submitted(h, r))
    /\ UNCHANGED << clock, cfg, call, mainVars, riskVars, mu, nextMsg, gateVars, histVars >>

\* variant: a failed Submit is tried a second time
SubmitOrderRetries(h, r) ==
    /\ hs[h].pc = "submit"
    /\ r \in SubmitResults(cfg, OrderRequest(cfg, h), clock)
    /\ IF r.err # ""
       THEN /\ hs' = IF msgLog[hs[h].msg].submits = 0 THEN hs
                     ELSE [hs EXCEPT ![h] = IdleHandler]
            /\ msgLog' = Submitted(h, r)
       ELSE Recording(h, Submitted(h, r))
    /\ UNCHANGED << clock, cfg, call, mainVars, riskVars, mu, nextMsg, gateVars,
                    histVars >>

\* lines 205-210; r is what Submit returned
SubmitOrder(h, r) ==
    /\ hs[h].pc = "submit"
    /\ r \in SubmitResults(cfg, OrderRequest(cfg, h), clock)
    /\ IF r.err # ""
       THEN /\ hs' = [hs EXCEPT ![h] = IdleHandler]
            /\ msgLog' = Submitted(h, r)
       ELSE Recording(h, Submitted(h, r))
    /\ UNCHANGED << clock, cfg, call, mainVars, riskVars, mu, nextMsg, gateVars, histVars >>

\* RecordExecution line 77: m.mu.Lock()
RecordAcquire(h) ==
    /\ hs[h].pc = "rec_lock"
    /\ mu = 0
    /\ mu' = h
    /\ hs' = [hs EXCEPT ![h].pc = "rec_locked"]
    /\ UNCHANGED << clock, cfg, call, mainVars, riskVars, nextMsg, msgLog, gateVars,
                    histVars >>

\* RecordExecution lines 80-84 with the deferred unlock, then lines 212-214
RecordCritical(h) ==
    /\ hs[h].pc = "rec_locked"
    /\ SetRisk(recordLocked(RiskState, hs[h].sig.Symbol, hs[h].now))
    /\ NoteExecution(hs[h].sig.Symbol, hs[h].now)
    /\ mu' = 0
    /\ hs' = [hs EXCEPT ![h] = IdleHandler]
    /\ msgLog' = [msgLog EXCEPT ![hs[h].msg].landed = @ + 1,
                                ![hs[h].msg].result = "nil"]
    /\ UNCHANGED << clock, cfg, call, mainVars, nextMsg, gateVars, hEvald >>

Step(h) ==
    \/ EvaluateAcquire(h)
    \/ EvaluateCritical(h)
    \/ /\ hs[h].pc = "submit"
       /\ \E r \in SubmitResults(cfg, OrderRequest(cfg, h), clock) :
             SubmitOrder(h, r)
    \/ RecordAcquire(h)
    \/ RecordCritical(h)

\* Engine.HandleMessage called from concurrent goroutines: a message goes
\* to the first idle handler
Dispatch(h, text) ==
    /\ nextMsg <= MaxMsgs
    /\ \A g \in 1..(h - 1) : hs[g].pc # "idle"
    /\ HandleMessage(h, text)
    /\ UNCHANGED mainVars

Next ==
    \/ Tick
    \/ \E h \in Handlers, text \in PipelineTexts : Dispatch(h, text)
    \/ \E h \in Handlers : Step(h)

Spec == Init /\ [][Next]_vars

\* main, lines 100-114: one consumer goroutine, one message at a time
Consume(text) ==
    /\ nextMsg <= MaxSeqMsgs
    /\ \A h \in Handlers : hs[h].pc = "idle"
    /\ HandleMessage(1, text)
    /\ UNCHANGED mainVars

SeqNext ==
    \/ Tick
    \/ \E text \in PipelineTexts : Consume(text)
    \/ Step(1)

SeqSpec == Init /\ [][SeqNext]_vars

(***************************************************************************)
(* SimpleManager called from concurrent goroutines, with the statements of *)
(* the locked sections taken one at a time: resetDay, then the checks of   *)
(* Evaluate, or the two writes of RecordExecution.  gateCall holds the     *)
(* call that entered its locked section last, with the state it found.     *)
(***************************************************************************)
\* Evaluate lines 46-50: fail fast, else read the clock
CallEvaluate(h, sym, n) ==
    /\ nCalls < MaxLockCalls
    /\ hs[h].pc = "idle"
    /\ nCalls' = nCalls + 1
    /\ hs' = IF nonPositive(n) THEN hs
             ELSE [hs EXCEPT ![h] = [IdleHandler EXCEPT
                                       !.pc = "eval_lock",
                                       !.sig = ParseOK(sym, sym),
                                       !.notional = n,
                                       !.now = clock]]
    /\ UNCHANGED << clock, cfg, call, mainVars, riskVars, mu, nextMsg, msgLog,
                    gateCall, histVars >>

\* RecordExecution line 76: read the clock
CallRecord(h, sym) ==
    /\ nCalls < MaxLockCalls
    /\ hs[h].pc = "idle"
    /\ nCalls' = nCalls + 1
    /\ hs' = [hs EXCEPT ![h] = [IdleHandler EXCEPT
                                  !.pc = "rec_lock",
                                  !.sig = ParseOK(sym, sym),
                                  !.notional = 1,
                                  !.now = clock]]
    /\ UNCHANGED << clock, cfg, call, mainVars, riskVars, mu, nextMsg, msgLog,
                    gateCall, histVars >>

\* Evaluate line 54, RecordExecution line 80: m.resetDay(now)
LockedResetDay(h) ==
    /\ hs[h].pc \in {"eval_locked", "rec_locked"}
    /\ SetRisk(resetDay(RiskState, hs[h].now))
    /\ hs' = [hs EXCEPT ![h].pc = IF hs[h].pc = "eval_locked"
                                  THEN "eval_checks" ELSE "rec_stamp"]
    /\ gateCall' = [op |-> IF hs[h].pc = "eval_locked"
                           THEN "evaluate" ELSE "record",
                    sym |-> hs[h].sig.Symbol, notional |-> hs[h].notional,
                    now |-> hs[h].now, decision |-> NoDecision,
                    pre |-> RiskState]
    /\ UNCHANGED << clock, cfg, call, mainVars, mu, nextMsg, msgLog, nCalls,
                    histVars >>

\* Evaluate lines 56-72, then the deferred m.mu.Unlock()
LockedChecks(h) ==
    /\ hs[h].pc = "eval_checks"
    /\ gateCall' = [gateCall EXCEPT !.decision =
                      evaluateChecks(cfg.Risk, RiskState, hs[h].sig.Symbol,
                                     hs[h].notional, hs[h].now)]
    /\ mu' = 0
    /\ hs' = [hs EXCEPT ![h] = IdleHandler]
    /\ UNCHANGED << clock, cfg, call, mainVars, riskVars, nextMsg, msgLog, nCalls,
                    histVars >>

\* RecordExecution line 81: m.lastTrade[sig.Symbol] = now
LockedStamp(h) ==
    /\ hs[h].pc = "rec_stamp"
    /\ lastTrade' = MapSet(lastTrade, hs[h].sig.Symbol, hs[h].now)
    /\ hs' = [hs EXCEPT ![h].pc = "rec_count"]
    /\ UNCHANGED << clock, cfg, call, mainVars, dailyTrades, dayAnchor, mu,
                    nextMsg, msgLog, gateVars, histVars >>

\* RecordExecution line 82: m.dailyTrades++, then the deferred Unlock
LockedCount(h) ==
    /\ hs[h].pc = "rec_count"
    /\ dailyTrades' = dailyTrades + 1
    /\ mu' = 0
    /\ hs' = [hs EXCEPT ![h] = IdleHandler]
    /\ UNCHANGED << clock, cfg, call, mainVars, lastTrade, dayAnchor, nextMsg,
                    msgLog, gateVars, histVars >>

LockNext ==
    \/ Tick
    \/ \E h \in Handlers, sym \in Symbols, n \in {0, 1} : CallEvaluate(h, sym, n)
    \/ \E h \in Handlers, sym \in Symbols : CallRecord(h, sym)
    \/ \E h \in Handlers : EvaluateAcquire(h)
    \/ \E h \in Handlers : RecordAcquire(h)
    \/ \E h \in Handlers : LockedResetDay(h)
    \/ \E h \in Handlers : LockedChecks(h)
    \/ \E h \in Handlers : LockedStamp(h)
    \/ \E h \in Handlers : LockedCount(h)

LockInit ==
    InitWith({MakeConfig([CooldownSeconds |-> 2, MaxDailyTrades |-> 2], TRUE)})

LockSpec == LockInit /\ [][LockNext]_vars

(***************************************************************************)
(* main: the listener goroutine (telegram Listener.Run, then close(msgCh)) *)
(* the consumer goroutine and the shutdown signal.  The consumer is the    *)
(* handler 1; it is at its select when that handler is idle.  What happens *)
(* after main returned is not part of any behaviour.                       *)
(***************************************************************************)
MainConfigs ==
    { [MakeConfig([CooldownSeconds |-> 2, MaxDailyTrades |-> 2], FALSE)
         EXCEPT !.Telegram.Enabled = enabled] : enabled \in BOOLEAN }

MainInit == InitWith(MainConfigs)

\* texts of the updates the transport receives; the empty one is skipped
UpdateTexts == {TextAB, TextNoToken, <<>>}

Batches == UNION { [1..n -> UpdateTexts] : n \in 1..BatchLimit }

\* listenForShutdown: a signal arrives and cancel() is called
Shutdown ==
    /\ ~ctxDone
    /\ ctxDone' = TRUE
    /\ UNCHANGED << clock, cfg, call, riskVars, mu, pipeVars, gateVars,
                    histVars, msgCh, chClosed, listener, consumer, delivered,
                    handled >>

\* Listener.Run lines 70-85: the context is live and fetchUpdates returns
ListenerFetch(batch) ==
    /\ cfg.Telegram.Enabled
    /\ listener.pc = "poll"
    /\ ~ctxDone
    /\ listener.offset + Len(batch) - 1 <= MaxUpdates
    /\ listener' = [listener EXCEPT
                      !.pc = "send",
                      !.updates = [i \in 1..Len(batch) |->
                                     [ID |-> listener.offset + i - 1,
                                      Text |-> batch[i]]]]
    /\ UNCHANGED << clock, cfg, call, riskVars, mu, pipeVars, gateVars,
                    histVars, msgCh, chClosed, ctxDone, consumer, delivered,
                    handled >>

\* the listener after the update at the head of its batch
Advanced ==
    [pc |-> IF Len(listener.updates) = 1 THEN "poll" ELSE "send",
     updates |-> Tail(listener.updates),
     offset |-> Head(listener.updates).ID + 1]

\* Listener.Run lines 87-100: an update without text is passed over
ListenerSkip ==
    /\ listener.pc = "send"
    /\ Head(listener.updates).Text = <<>>
    /\ listener' = Advanced
    /\ UNCHANGED << clock, cfg, call, riskVars, mu, pipeVars, gateVars,
                    histVars, msgCh, chClosed, ctxDone, consumer, delivered,
                    handled >>

\* Listener.Run lines 102-106: out <- msg, which waits for room in msgCh
ListenerSend ==
    /\ listener.pc = "send"
    /\ Head(listener.updates).Text # <<>>
    /\ Len(msgCh) < QueueCap
    /\ msgCh' = Append(msgCh, Head(listener.updates))
    /\ delivered' = Append(delivered, Head(listener.updates))
    /\ listener' = Advanced
    /\ UNCHANGED << clock, cfg, call, riskVars, mu, pipeVars, gateVars,
                    histVars, chClosed, ctxDone, consumer, handled >>

\* Listener.Run lines 71-73 or 79-80, then main line 91; with the listener
\* disabled, main lines 95-96
ListenerReturn ==
    /\ listener.pc = "poll"
    /\ ctxDone
    /\ listener' = [listener EXCEPT !.pc = "returned"]
    /\ chClosed' = TRUE
    /\ UNCHANGED << clock, cfg, call, riskVars, mu, pipeVars, gateVars,
                    histVars, msgCh, ctxDone, consumer, delivered, handled >>

\* main lines 103-104: the select takes the cancelled context
ConsumerCancelled ==
    /\ consumer = "select"
    /\ hs[1].pc = "idle"
    /\ ctxDone
    /\ consumer' = "cancelled"
    /\ UNCHANGED << clock, cfg, call, riskVars, mu, pipeVars, gateVars,
                    histVars, msgCh, chClosed, ctxDone, listener, delivered,
                    handled >>

\* main lines 105-108: the select takes the closed, drained channel
ConsumerClosed ==
    /\ consumer = "select"
    /\ hs[1].pc = "idle"
    /\ msgCh = <<>>
    /\ chClosed
    /\ consumer' = "closed"
    /\ UNCHANGED << clock, cfg, call, riskVars, mu, pipeVars, gateVars,
                    histVars, msgCh, chClosed, ctxDone, listener, delivered,
                    handled >>

\* variant: the select takes the newest message of the channel
ConsumerReceiveNewest ==
    /\ consumer = "select"
    /\ msgCh # <<>>
    /\ HandleMessage(1, msgCh[Len(msgCh)].Text)
    /\ msgCh' = SubSeq(msgCh, 1, Len(msgCh) - 1)
    /\ handled' = Append(handled, msgCh[Len(msgCh)])
    /\ UNCHANGED << chClosed, ctxDone, listener, consumer, delivered >>

\* variant: the consumer goroutine returns when a message fails to parse
ConsumerReceiveStopsOnError ==
    /\ consumer = "select"
    /\ msgCh # <<>>
    /\ HandleMessage(1, Head(msgCh).Text)
    /\ msgCh' = Tail(msgCh)
    /\ handled' = Append(handled, Head(msgCh))
    /\ consumer' = IF Parse(cfg.Parser, Head(msgCh).Text).err # ""
                   THEN "failed" ELSE consumer
    /\ UNCHANGED << chClosed, ctxDone, listener, delivered >>

\* main lines 105-111: the select takes a message and HandleMessage starts
ConsumerReceive ==
    /\ consumer = "select"
    /\ msgCh # <<>>
    /\ HandleMessage(1, Head(msgCh).Text)
    /\ msgCh' = Tail(msgCh)
    /\ handled' = Append(handled, Head(msgCh))
    /\ UNCHANGED << chClosed, ctxDone, listener, consumer, delivered >>

MainNext ==
    \/ Shutdown
    \/ \E batch \in Batches : ListenerFetch(batch)
    \/ ListenerSkip
    \/ ListenerSend
    \/ ListenerReturn
    \/ ConsumerCancelled
    \/ ConsumerClosed
    \/ ConsumerReceive
    \/ Step(1)

MainSpec == MainInit /\ [][MainNext]_vars

\* a ConsumerReceive step, as seen on the channel and the history
ConsumerTakes ==
    /\ consumer = "select"
    /\ hs[1].pc = "idle"
    /\ msgCh # <<>>
    /\ msgCh' = Tail(msgCh)
    /\ handled' = Append(handled, Head(msgCh))

\* the consumer goroutine is scheduled: it takes a message when one is
\* ready, and a HandleMessage in progress goes on
MainLive ==
    /\ MainSpec
    /\ WF_<<msgCh, handled>>(ConsumerTakes)
    /\ WF_vars(Step(1))

\* every goroutine is scheduled: the listener goes on whenever it can, the
\* consumer takes whichever case of its select is ready
ShutdownLive ==
    /\ MainLive
    /\ WF_vars(ListenerSkip)
    /\ WF_vars(ListenerSend)
    /\ WF_vars(ListenerReturn)
    /\ WF_vars(ConsumerCancelled)
    /\ WF_vars(ConsumerClosed)

(***************************************************************************)
(* Parser.Parse applied on its own, over parser configurations (NewParser  *)
(* takes any ParserConfig) and message texts put together from a token     *)
(* part and a link part.                                                   *)
(***************************************************************************)
ParserConfigs ==
    { [ParserConfig EXCEPT !.RequiredTokens = tokens, !.PairSeparator = sep] :
        tokens \in { << <<"G", "O">> >>, << <<"G", "O">>, <<"O", "K">> >> },
        sep \in { <<"_">>, <<"o">>, <<>> } }

TokenParts ==
    { <<>>, <<"G", "O", " ">>, <<"G", "O", " ", "O", "K", " ">>,
      <<"g", "o", " ">> }

LinkTo(host, path) == <<"h", ":", "/", "/">> \o host \o path

LinkParts ==
    { <<>> }
    \cup { LinkTo(<<"o", ".", "c">>, <<"/", "e", "/", "A", "_", "B">>),
           LinkTo(<<"M", ".", "c">>, <<"/", "e", "/", "c", "_", "b">>) }
    \cup { LinkTo(<<"m", ".", "c">>, <<"/", "e", "/">> \o pair) :
             pair \in { <<>>, <<"/">>, <<"_">>, <<"A", "B">>,
                        <<"A", "_", "B">>, <<"A", "-", "B">>,
                        <<"A", "%", "5", "F", "B">>, <<"A", "o", "B">>,
                        <<"A", "-", "o", "B">>, <<"A", "_", "B", "/">> } }

\* segments that hold "://" and are passed over: another host, another
\* path, no host, an escape url.Parse rejects; and one without "://"
OtherLinks ==
    { LinkTo(<<"o", ".", "c">>, <<"/", "e", "/", "C", "_", "B">>),
      LinkTo(<<"m", ".", "c">>, <<"/", "a", "/", "C", "_", "B">>),
      LinkTo(<<>>, <<"/", "e", "/", "C", "_", "B">>),
      LinkTo(<<"m", ".", "c">>, <<"/", "e", "/", "C", "%", "B">>),
      <<"m", ".", "c", "/", "e", "/", "C", "_", "B">> }

\* link parts of several segments
SeveralLinks ==
    { o \o <<" ">> \o LinkTo(<<"m", ".", "c">>, <<"/", "e", "/", "A", "_", "B">>)
        \o rest :
        o \in OtherLinks,
        rest \in { <<>>, <<".">>,
                   <<" ">> \o LinkTo(<<"M", ".", "C">>,
                                     <<"/", "e", "/", "C", "_", "B">>) } }
    \cup { o \o <<"\n">> \o p : o \in OtherLinks, p \in OtherLinks }

ParserTexts ==
    { <<>>, <<" ">>, <<"\t", " ">> }
    \cup { t \o l : t \in TokenParts, l \in LinkParts }
    \cup { <<"G", "O", " ", "O", "K", " ">> \o l : l \in SeveralLinks }

ParserInit ==
    /\ Constructed({ [MakeConfig([CooldownSeconds |-> 0, MaxDailyTrades |-> 1],
                                 TRUE) EXCEPT !.Parser = pcfg] :
                       pcfg \in ParserConfigs })
    /\ call \in [fn : {"Parse"}, arg : ParserTexts, done : {FALSE},
                 out : {ParseErr("")}]

\* HandleMessage line 178: e.parser.Parse(msg)
ParseMessage ==
    /\ call.fn = "Parse"
    /\ ~call.done
    /\ call' = [call EXCEPT !.done = TRUE,
                            !.out = Parse(cfg.Parser, call.arg)]
    /\ UNCHANGED programVars

ParserNext == ParseMessage

ParserSpec == ParserInit /\ [][ParserNext]_vars

(***************************************************************************)
(* Engine.resolveNotional applied on its own, over the configurations that *)
(* Config.Validate accepts (default > 0, global maximum >= default; the    *)
(* per-symbol overrides are not validated).                                *)
(***************************************************************************)
OverrideValues == { -1, 0, 50, 120, 150, 700 }

SizingOverrides ==
    { EmptyMap }
    \cup { [s \in {SymAB} |-> [MaxNotional |-> m, DefaultBaseNotional |-> d]] :
             m \in OverrideValues, d \in OverrideValues }

SizingConfigs ==
    { [MakeConfig([CooldownSeconds |-> 0, MaxDailyTrades |-> 1], TRUE)
         EXCEPT !.Trading.DefaultBaseNotional = t[1],
                !.Trading.MaxNotional = t[2],
                !.Overrides = ov] :
        t \in { <<100, 100>>, <<100, 130>>, <<100, 500>>, <<600, 600>> },
        ov \in SizingOverrides }

SizingInit ==
    /\ Constructed(SizingConfigs)
    /\ call \in [fn : {"resolveNotional"}, arg : Symbols, done : {FALSE},
                 out : {0}]

\* HandleMessage line 183: e.resolveNotional(sig.Symbol)
ResolveNotional ==
    /\ call.fn = "resolveNotional"
    /\ ~call.done
    /\ call' = [call EXCEPT !.done = TRUE,
                            !.out = resolveNotional(cfg, call.arg)]
    /\ UNCHANGED programVars

SizingNext == ResolveNotional

SizingSpec == SizingInit /\ [][SizingNext]_vars

(***************************************************************************)
(* Executor.Submit applied on its own: one request, submitted any number   *)
(* of times while the clock advances, each time with any answer of the     *)
(* exchange.  call.acks collects the acknowledgements obtained.            *)
(***************************************************************************)
ExecConfigs ==
    { [MakeConfig([CooldownSeconds |-> 0, MaxDailyTrades |-> 1], dry)
         EXCEPT !.Mode.MarketType = market] :
        dry \in BOOLEAN, market \in {"spot", "futures"} }

ExecRequests ==
    [Symbol : Symbols, Notional : Notionals, Side : {"BUY"},
     Type : {"MARKET", "LIMIT"}, SlippageBps : {0}, Metadata : {0}]

NoResponse == [transport |-> "none", StatusCode |-> 0, decodable |-> FALSE,
               Code |-> 0]

ExecInit ==
    /\ Constructed(ExecConfigs)
    /\ call \in [fn : {"Submit"}, arg : ExecRequests, done : {FALSE},
                 out : {[err |-> "", ack |-> NoAck, sends |-> 0]},
                 resp : {NoResponse}, acks : {{}}, at : {0}]

\* HandleMessage line 205: e.executor.Submit(ctx, req)
ExecSubmit(resp) ==
    /\ call.fn = "Submit"
    /\ LET r == Submit(cfg, call.arg, resp, clock)
       IN  call' = [call EXCEPT !.done = TRUE, !.resp = resp, !.out = r,
                                !.at = clock,
                                !.acks = IF r.err = "" THEN @ \cup {r.ack}
                                                       ELSE @]
    /\ UNCHANGED programVars

ExecNext ==
    \/ Tick
    \/ \E resp \in Responses : ExecSubmit(resp)

ExecSpec == ExecInit /\ [][ExecNext]_vars

(***************************************************************************)
(* The signed request body of the MEXC executor: canonicalQuery, sign and  *)
(* the parameters submitSpot builds.  A Go map is ranged over in an        *)
(* arbitrary order; "order" is the sequence of keys one such range yields. *)
(***************************************************************************)
\* the characters in use, in byte order
AsciiOrder ==
    <<" ", "!", "%", "&", "+", "-", ".", "0", "1", "2", "3", "4", "5",
      "6", "7", "8", "9", "=", "A", "B", "C", "D", "E", "F", "G", "H",
      "I", "J", "K", "L", "M", "N", "O", "P", "Q", "R", "S", "T", "U",
      "V", "W", "X", "Y", "Z", "_", "a", "b", "c", "d", "e", "f", "g",
      "h", "i", "j", "k", "l", "m", "n", "o", "p", "q", "r", "s", "t",
      "u", "v", "w", "x", "y", "z">>

RankTable ==
    [c \in { AsciiOrder[i] : i \in 1..Len(AsciiOrder) } |->
        CHOOSE i \in 1..Len(AsciiOrder) : AsciiOrder[i] = c]

CharRank(c) == RankTable[c]

\* a < b on strings, byte by byte
RECURSIVE StringLess(_, _)
StringLess(a, b) ==
    IF b = <<>> THEN FALSE
    ELSE IF a = <<>> THEN TRUE
    ELSE IF Head(a) = Head(b) THEN StringLess(Tail(a), Tail(b))
    ELSE CharRank(Head(a)) < CharRank(Head(b))

\* sort.Strings, by insertion
RECURSIVE InsertString(_, _)
InsertString(sorted, k) ==
    IF sorted = <<>> THEN <<k>>
    ELSE IF StringLess(k, Head(sorted)) THEN <<k>> \o sorted
    ELSE <<Head(sorted)>> \o InsertString(Tail(sorted), k)

RECURSIVE SortStrings(_)
SortStrings(keys) ==
    IF keys = <<>> THEN <<>>
    ELSE InsertString(SortStrings(Tail(keys)), Head(keys))

\* url.QueryEscape
Unreserved ==
    { AsciiOrder[i] : i \in 1..Len(AsciiOrder) } \ {" ", "!", "%", "&", "+", "="}

HexOf == [c \in {"!", "%", "&", "+", "="} |->
            CASE c = "!" -> <<"%", "2", "1">>
              [] c = "%" -> <<"%", "2", "5">>
              [] c = "&" -> <<"%", "2", "6">>
              [] c = "+" -> <<"%", "2", "B">>
              [] c = "=" -> <<"%", "3", "D">>]

RECURSIVE QueryEscape(_)
QueryEscape(str) ==
    IF str = <<>> THEN <<>>
    ELSE (IF Head(str) \in Unreserved THEN <<Head(str)>>
          ELSE IF Head(str) = " " THEN <<"+">>
          ELSE HexOf[Head(str)]) \o QueryEscape(Tail(str))

\* url.Values.Encode over the keys already sorted
RECURSIVE encodeSorted(_, _)
encodeSorted(values, keys) ==
    IF keys = <<>> THEN <<>>
    ELSE LET k == Head(keys)
             rest == encodeSorted(values, Tail(keys))
         IN  QueryEscape(k) \o <<"=">> \o QueryEscape(values[k])
               \o (IF rest = <<>> THEN <<>> ELSE <<"&">> \o rest)

\* url.Values.Encode: ranges over the map, sorts the keys, writes the pairs
Encode(values, order) == encodeSorted(values, SortStrings(order))

\* every order in which the keys of a map can be ranged over
RECURSIVE Orders(_)
Orders(keys) ==
    IF keys = {} THEN { <<>> }
    ELSE UNION { { <<k>> \o o : o \in Orders(keys \ {k}) } : k \in keys }

\* variant: the pairs are written in the order the map yields them
canonicalQueryUnsorted(params, order) == encodeSorted(params, order)

\* canonicalQuery: range over params, sort the keys, url.Values.Set each
canonicalQuery(params, order) ==
    LET keys == SortStrings(order)
        values == [k \in { keys[i] : i \in 1..Len(keys) } |-> params[k]]
    IN  Encode(values, order)

\* Executor.sign: the hex digest, one opaque element per (secret, payload)
sign(apiSecret, payload) == << <<"hmac-sha256", apiSecret, payload>> >>

\* strconv.FormatInt / formatFloat on whole numbers
Digits == <<"0", "1", "2", "3", "4", "5", "6", "7", "8", "9">>

RECURSIVE FormatNat(_)
FormatNat(n) ==
    IF n < 10 THEN <<Digits[n + 1]>>
    ELSE FormatNat(n \div 10) \o <<Digits[(n % 10) + 1]>>

FormatInt(n) == IF n < 0 THEN <<"-">> \o FormatNat(-n) ELSE FormatNat(n)

formatFloat(value) == FormatInt(value)

KeySymbol == <<"s", "y", "m", "b", "o", "l">>
KeySide == <<"s", "i", "d", "e">>
KeyType == <<"t", "y", "p", "e">>
KeyTimestamp == <<"t", "i", "m", "e", "s", "t", "a", "m", "p">>
KeyRecvWindow == <<"r", "e", "c", "v", "W", "i", "n", "d", "o", "w">>
KeyQuoteOrderQty == <<"q", "u", "o", "t", "e", "O", "r", "d", "e", "r", "Q", "t", "y">>

\* submitSpot lines 80-91
spotParams(req, now) ==
    LET market == req.Type = "MARKET"
        keys == {KeySymbol, KeySide, KeyType, KeyTimestamp, KeyRecvWindow}
                  \cup (IF market THEN {KeyQuoteOrderQty} ELSE {})
    IN  [k \in keys |->
            CASE k = KeySymbol -> ToUpper(req.Symbol)
              [] k = KeySide -> IF req.Side = "BUY" THEN <<"B", "U", "Y">>
                                ELSE <<"S", "E", "L", "L">>
              [] k = KeyType -> IF market THEN <<"M", "A", "R", "K", "E", "T">>
                                ELSE <<"L", "I", "M", "I", "T">>
              [] k = KeyTimestamp -> FormatInt(now * 1000)
              [] k = KeyRecvWindow -> <<"5", "0", "0", "0">>
              [] k = KeyQuoteOrderQty -> formatFloat(req.Notional)]

\* variant: the signature is computed over the query escaped once more
spotBodySignsEscaped(apiSecret, query) ==
    query \o <<"&", "s", "i", "g", "n", "a", "t", "u", "r", "e", "=">>
          \o sign(apiSecret, QueryEscape(query))

\* submitSpot lines 94-95
spotBody(apiSecret, query) ==
    query \o <<"&", "s", "i", "g", "n", "a", "t", "u", "r", "e", "=">>
          \o sign(apiSecret, query)

\* parameter sets whose keys and values need escaping
OddParams ==
    [ { <<"a", " ">>, <<"a", "!">>, <<"B">> } ->
        { <<"1", "&", "2">>, <<"=", " ">>, <<"%", "5", "F">> } ]

QueryRequests ==
    [Symbol : Symbols, Notional : {1, 2}, Side : {"BUY"},
     Type : {"MARKET", "LIMIT"}, SlippageBps : {0}, Metadata : {0}]

QueryParams == { spotParams(req, 0) : req \in QueryRequests } \cup OddParams

\* account secrets the executor is constructed with
ApiSecrets == {"secret-1", "secret-2"}

QueryInit ==
    /\ Constructed({MakeConfig([CooldownSeconds |-> 0, MaxDailyTrades |-> 1],
                               FALSE)})
    /\ call \in [fn : {"canonicalQuery"}, arg : QueryParams, done : {FALSE},
                 out : {<<>>}, bodies : {{}}, first : {<<>>},
                 varied : {FALSE}, apiSecret : ApiSecrets]

\* submitSpot lines 93-95, the map ranged over in the given order
Canonicalize(order) ==
    /\ call.fn = "canonicalQuery"
    /\ LET query == canonicalQuery(call.arg, order)
       IN  call' = [call EXCEPT
                      !.done = TRUE,
                      !.out = query,
                      !.bodies = @ \cup {spotBody(call.apiSecret, query)},
                      !.first = Head(order),
                      !.varied = @ \/ (call.done /\ call.first # Head(order))]
    /\ UNCHANGED programVars

QueryNext == \E order \in Orders(DOMAIN call.arg) : Canonicalize(order)

QuerySpec == QueryInit /\ [][QueryNext]_vars

(***************************************************************************)
(* Properties of the risk gate driven directly (GateSpec).                 *)
(***************************************************************************)
EvaluatedPositive == gateCall.op = "evaluate" /\ gateCall.notional > 0

\* the evaluated symbol lies inside its cooldown window, counted from its
\* latest recordExecution of the same UTC day
InsideCooldown ==
    /\ cfg.Risk.CooldownSeconds > 0
    /\ gateCall.sym \in DOMAIN hLast
    /\ Truncate(hLast[gateCall.sym].at) = Truncate(gateCall.now)
    /\ gateCall.now - hLast[gateCall.sym].at < cfg.Risk.CooldownSeconds

\* C1: with a cooldown C > 0 configured (and no daily cap in the way), an
\* evaluate(sym, n > 0) that follows an evaluate(sym) and then a
\* recordExecution(sym) is denied with cooldown_active when it comes less
\* than C seconds after that recordExecution, and is allowed when it comes
\* C or more seconds after it.
C1_CooldownWindow ==
    ( /\ EvaluatedPositive
      /\ cfg.Risk.CooldownSeconds > 0
      /\ cfg.Risk.MaxDailyTrades = 0
      /\ gateCall.sym \in DOMAIN hLast
      /\ hLast[gateCall.sym].afterEval )
    => IF gateCall.now - hLast[gateCall.sym].at < cfg.Risk.CooldownSeconds
       THEN /\ ~gateCall.decision.Allow
            /\ gateCall.decision.Reason = "cooldown_active"
       ELSE gateCall.decision.Allow

\* C2 as stated: with a daily cap K > 0, an evaluate that follows K
\* recordExecution calls of its own UTC day is denied with
\* daily_trade_limit, whatever the symbol; an evaluate on a day without
\* recorded executions is allowed.
C2_DailyLimitAnySymbol ==
    (EvaluatedPositive /\ cfg.Risk.MaxDailyTrades > 0)
    => /\ (hDay = Truncate(gateCall.now) /\ hCount >= cfg.Risk.MaxDailyTrades)
          => /\ ~gateCall.decision.Allow
             /\ gateCall.decision.Reason = "daily_trade_limit"
       /\ hDay # Truncate(gateCall.now) => gateCall.decision.Allow

\* C2 amended: with a daily cap K > 0, an evaluate that follows K
\* recordExecution calls of its own UTC day is denied; the reason is
\* daily_trade_limit unless the symbol is still inside its cooldown window,
\* where the cooldown check comes first and the reason is cooldown_active.
\* An evaluate on a day without recorded executions is allowed.
C2_DailyLimit ==
    (EvaluatedPositive /\ cfg.Risk.MaxDailyTrades > 0)
    => /\ (hDay = Truncate(gateCall.now) /\ hCount >= cfg.Risk.MaxDailyTrades)
          => /\ ~gateCall.decision.Allow
             /\ gateCall.decision.Reason =
                  IF InsideCooldown THEN "cooldown_active"
                                    ELSE "daily_trade_limit"
       /\ hDay # Truncate(gateCall.now) => gateCall.decision.Allow

\* K executions recorded today, and the next evaluate hits the daily cap
C2_Witness ==
    /\ EvaluatedPositive
    /\ cfg.Risk.MaxDailyTrades > 0
    /\ hDay = Truncate(gateCall.now)
    /\ hCount = cfg.Risk.MaxDailyTrades
    /\ gateCall.sym \in DOMAIN hLast
    /\ gateCall.decision.Reason = "daily_trade_limit"

\* C7 as stated: whatever the call, the daily counter and the per-symbol
\* map are the same after evaluate as before it.
C7_EvaluateIsPure ==
    gateCall.op = "evaluate"
    => /\ dailyTrades = gateCall.pre.dailyTrades
       /\ lastTrade = gateCall.pre.lastTrade

\* C7 amended: evaluate changes the daily counter and the per-symbol map
\* only through day-boundary reconciliation: a positive-notional call made
\* on a UTC day after the anchor zeroes the counter and empties the map;
\* every other call leaves both as they were.
C7_EvaluateOnlyReconciles ==
    gateCall.op = "evaluate"
    => IF /\ gateCall.notional > 0
          /\ gateCall.pre.dayAnchor # ZeroTime
          /\ Truncate(gateCall.now) > gateCall.pre.dayAnchor
       THEN dailyTrades = 0 /\ lastTrade = EmptyMap
       ELSE /\ dailyTrades = gateCall.pre.dailyTrades
            /\ lastTrade = gateCall.pre.lastTrade

\* an allowed evaluate on the anchor's day, with executions on record
C7_Witness ==
    /\ EvaluatedPositive
    /\ gateCall.decision.Allow
    /\ gateCall.pre.dailyTrades > 0
    /\ dailyTrades = gateCall.pre.dailyTrades
    /\ lastTrade = gateCall.pre.lastTrade
    /\ lastTrade # EmptyMap

\* C8: evaluate with desiredNotional <= 0 returns Allow=false with the
\* reason code non_positive_notional and leaves the risk state, the day
\* anchor included, untouched.
C8_NonPositiveNotional ==
    (gateCall.op = "evaluate" /\ gateCall.notional <= 0)
    => /\ ~gateCall.decision.Allow
       /\ gateCall.decision.Reason = "non_positive_notional"
       /\ RiskState = gateCall.pre

(***************************************************************************)
(* Properties of the orchestrator (Spec: concurrent handlers; SeqSpec: the *)
(* single consumer of main).                                               *)
(***************************************************************************)
Msgs == DOMAIN msgLog

\* the handler working on message m, if any
Working(m) == \E h \in Handlers : hs[h].pc # "idle" /\ hs[h].msg = m

\* C3: a message whose order the risk gate accepted and the executor
\* acknowledged gets exactly one recordExecution call, made after Submit
\* returned success, for the message's symbol and with the decision's
\* notional; once the handler has returned the call has landed exactly once.
C3_RecordedExactlyOnce ==
    \A m \in Msgs :
        /\ msgLog[m].records <= 1
        /\ msgLog[m].landed <= msgLog[m].records
        /\ msgLog[m].records = 1
              => /\ msgLog[m].decision.Allow
                 /\ msgLog[m].acked
                 /\ msgLog[m].submits = 1
                 /\ msgLog[m].recSym = msgLog[m].sym
                 /\ msgLog[m].recNotional = msgLog[m].decision.Notional
        /\ (msgLog[m].decision.Allow /\ msgLog[m].acked /\ ~Working(m))
              => /\ msgLog[m].records = 1
                 /\ msgLog[m].landed = 1
                 /\ msgLog[m].result = "nil"

\* an accepted, acknowledged order has been recorded and its handler is back
C3_Witness ==
    \E m \in Msgs :
        /\ msgLog[m].decision.Allow
        /\ msgLog[m].acked
        /\ ~Working(m)
        /\ msgLog[m].landed = 1
        /\ msgLog[m].sym \in DOMAIN lastTrade

\* the message failed to parse, was denied, or failed to submit
Failed(m) ==
    \/ msgLog[m].parseErr # ""
    \/ msgLog[m].decision.Reason # ""
    \/ msgLog[m].result = "order submission failed"

\* C4: for a message whose parse fails, whose evaluation is denied or whose
\* submission fails, recordExecution is never invoked; and every step that
\* raises the daily counter or sets a timestamp is the recordExecution of a
\* message that was accepted and acknowledged.
C4_FailureConsumesNoBudget ==
    /\ [](\A m \in Msgs :
            Failed(m) => msgLog[m].records = 0 /\ msgLog[m].landed = 0)
    /\ [][ ( \/ dailyTrades' > dailyTrades
             \/ \E s \in DOMAIN lastTrade' :
                   s \notin DOMAIN lastTrade \/ lastTrade'[s] # lastTrade[s] )
           => \E h \in Handlers :
                 /\ hs[h].pc = "rec_locked"
                 /\ hs'[h].pc = "idle"
                 /\ msgLog[hs[h].msg].acked
                 /\ msgLog[hs[h].msg].decision.Allow
                 /\ ~Failed(hs[h].msg) ]_vars

\* a submission failed after an accepted decision, and the gate is untouched
C4_Witness ==
    \E m \in Msgs :
        /\ msgLog[m].result = "order submission failed"
        /\ msgLog[m].decision.Allow
        /\ msgLog[m].records = 0
        /\ dailyTrades = 0
        /\ lastTrade = EmptyMap

\* handler h leaves the critical section of Evaluate with Allow
AllowedBy(h) ==
    /\ hs[h].pc = "eval_locked"
    /\ hs'[h].pc = "submit"

\* C5: the gate reserves nothing at evaluation time: an allowed evaluate
\* leaves the gate in a state where the same evaluate, for the same symbol
\* at the same instant, is allowed again.  Two orders for one symbol can
\* therefore both be accepted and submitted inside one cooldown window
\* before either recordExecution lands (C5_Witness).
C5_NothingReserved ==
    [][ \A h \in Handlers :
          AllowedBy(h)
          => evaluateLocked(cfg.Risk, RiskState', hs[h].sig.Symbol,
                            hs[h].notional, hs[h].now).decision.Allow ]_vars

\* both orders for one symbol accepted and acknowledged, nothing recorded
C5_Witness ==
    /\ cfg.Risk.CooldownSeconds > 0
    /\ hCount = 0
    /\ \E h1, h2 \in Handlers :
          /\ h1 # h2
          /\ hs[h1].sig.Symbol = hs[h2].sig.Symbol
          /\ hs[h1].pc \in {"record", "rec_lock", "rec_locked"}
          /\ hs[h2].pc \in {"record", "rec_lock", "rec_locked"}
          /\ msgLog[hs[h1].msg].acked
          /\ msgLog[hs[h2].msg].acked
          /\ hs[h1].decision.Allow
          /\ hs[h2].decision.Allow

\* C6: with messages handled one at a time, any two executions of the same
\* symbol lie at least the cooldown apart, a UTC day boundary between them
\* or not.
C6_CooldownBetweenExecutions ==
    \A s \in DOMAIN hLast :
        hLast[s].n >= 2 => hLast[s].gap >= cfg.Risk.CooldownSeconds

\* C9: when parsing fails the orchestrator returns the parse error and
\* calls neither the risk gate nor the executor for that message.
C9_ParseFailureStops ==
    \A m \in Msgs :
        msgLog[m].parseErr # ""
        => /\ msgLog[m].result = "parse signal"
           /\ ~Working(m)
           /\ msgLog[m].evals = 0
           /\ msgLog[m].submits = 0
           /\ msgLog[m].sends = 0
           /\ msgLog[m].records = 0

\* a message failed to parse while the pipeline went on with another one
C9_Witness ==
    \E m, k \in Msgs :
        /\ msgLog[m].parseErr = "errMissingToken"
        /\ k > m
        /\ msgLog[k].evals = 1

\* C10: when evaluate denies, the orchestrator makes no Submit and no
\* recordExecution call for that message and returns nil.
C10_DenialStops ==
    \A m \in Msgs :
        (msgLog[m].evals = 1 /\ msgLog[m].decision.Reason # "")
        => /\ ~msgLog[m].decision.Allow
           /\ msgLog[m].result = "nil"
           /\ ~Working(m)
           /\ msgLog[m].submits = 0
           /\ msgLog[m].sends = 0
           /\ msgLog[m].records = 0

\* a message was denied for cooldown
C10_Witness ==
    \E m \in Msgs :
        /\ msgLog[m].decision.Reason = "cooldown_active"
        /\ msgLog[m].result = "nil"

(***************************************************************************)
(* Properties of the order sizing (SizingSpec).                            *)
(***************************************************************************)
Min(a, b) == IF a <= b THEN a ELSE b

\* the symbol has an override entry / with a default set / with a maximum set
HasOverride(sym) == sym \in DOMAIN cfg.Overrides

OverrideDefaultSet(sym) ==
    HasOverride(sym) /\ cfg.Overrides[sym].DefaultBaseNotional > 0

OverrideMaxSet(sym) ==
    HasOverride(sym) /\ cfg.Overrides[sym].MaxNotional > 0

\* C11: the resolved notional equals the reference: the configured default,
\* replaced by the symbol override's default when it has one, clamped to
\* the override's maximum when it has one, then clamped to the global
\* maximum.  Hence it never exceeds the global maximum, nor the override's
\* own maximum when one is set.
C11_NotionalResolution ==
    (call.fn = "resolveNotional" /\ call.done)
    => LET sym == call.arg
           base == IF OverrideDefaultSet(sym)
                   THEN cfg.Overrides[sym].DefaultBaseNotional
                   ELSE cfg.Trading.DefaultBaseNotional
           capped == IF OverrideMaxSet(sym)
                     THEN Min(base, cfg.Overrides[sym].MaxNotional)
                     ELSE base
       IN  /\ call.out = Min(capped, cfg.Trading.MaxNotional)
           /\ call.out <= cfg.Trading.MaxNotional
           /\ OverrideMaxSet(sym) => call.out <= cfg.Overrides[sym].MaxNotional

\* default 100, override default 150 and maximum 120, global maximum 500:
\* the override's own cap wins and the notional is 120
C11_Witness ==
    /\ call.fn = "resolveNotional"
    /\ call.done
    /\ cfg.Trading.DefaultBaseNotional = 100
    /\ cfg.Trading.MaxNotional = 500
    /\ HasOverride(call.arg)
    /\ cfg.Overrides[call.arg].DefaultBaseNotional = 150
    /\ cfg.Overrides[call.arg].MaxNotional = 120
    /\ call.out = 120

(***************************************************************************)
(* Properties of the executors (ExecSpec).                                 *)
(***************************************************************************)
Submitted1 == call.fn = "Submit" /\ call.done

LiveSpot == ~cfg.Debug.DryRun /\ cfg.Mode.MarketType = "spot"

\* the answer is a 200 whose body decodes and carries code 0 or 200
AnswerOK(resp) ==
    /\ resp.transport = "ok"
    /\ resp.StatusCode = 200
    /\ resp.decodable
    /\ resp.Code \in {0, 200}

\* C12: the live Submit returns an OrderAck only when the transport status
\* is success and the application code in the decoded body is zero/ok; a
\* non-success status, an undecodable success body and a success body with
\* a non-zero non-ok code each give an error and no acknowledgement.
C12_AckOnlyOnSuccess ==
    (Submitted1 /\ LiveSpot)
    => /\ (call.out.err = "") <=> AnswerOK(call.resp)
       /\ call.out.err # "" => call.out.ack = NoAck
       /\ call.out.err = "" => call.out.ack # NoAck

\* a 200 answer with a decodable body carrying an application error code
\* was turned into an error
C12_Witness ==
    /\ Submitted1
    /\ LiveSpot
    /\ call.resp.transport = "ok"
    /\ call.resp.StatusCode = 200
    /\ call.resp.decodable
    /\ call.resp.Code = 30005
    /\ call.out.err = "order error"
    /\ call.out.ack = NoAck

\* C17 as stated: the dry-run executor returns an error if and only if the
\* notional is <= 0, makes no network call, and gives the same OrderAck
\* every time the same request is submitted.
C17_DryRunDeterministic ==
    (Submitted1 /\ cfg.Debug.DryRun)
    => /\ (call.out.err # "") <=> (call.arg.Notional <= 0)
       /\ call.out.sends = 0
       /\ Cardinality(call.acks) <= 1

\* C17 amended: the dry-run executor returns an error if and only if the
\* notional is <= 0 and makes no network call; its acknowledgement carries
\* the fixed order identifier "dry-run" and the wall-clock time of the
\* call, so two submissions of one request agree on the identifier and
\* differ in SubmittedAt when made at different times.
C17_DryRunAck ==
    (Submitted1 /\ cfg.Debug.DryRun)
    => /\ (call.out.err # "") <=> (call.arg.Notional <= 0)
       /\ call.out.sends = 0
       /\ call.out.err # "" => call.out.ack = NoAck
       /\ call.out.err = ""
             => call.out.ack = [OrderID |-> "dry-run", SubmittedAt |-> call.at]
       /\ \A a \in call.acks : a.OrderID = "dry-run"
       /\ \A a, b \in call.acks : a # b => a.SubmittedAt # b.SubmittedAt

\* one request was acknowledged twice by the dry-run executor, at two
\* different times
C17_Witness ==
    /\ Submitted1
    /\ cfg.Debug.DryRun
    /\ call.arg.Notional > 0
    /\ Cardinality(call.acks) = 2
    /\ call.out.sends = 0

(***************************************************************************)
(* Properties of the signed request (QuerySpec).                           *)
(***************************************************************************)
\* the keys of the parameter set, in ascending byte order
Ascending(params) ==
    CHOOSE o \in Orders(DOMAIN params) :
        \A i \in 1..(Len(o) - 1) : StringLess(o[i], o[i + 1])

RECURSIVE JoinPairs(_, _)
JoinPairs(params, keys) ==
    IF keys = <<>> THEN <<>>
    ELSE QueryEscape(Head(keys)) \o <<"=">> \o QueryEscape(params[Head(keys)])
           \o (IF Len(keys) > 1 THEN <<"&">> ELSE <<>>)
           \o JoinPairs(params, Tail(keys))

\* C13: whatever the order in which the parameter map is ranged over, the
\* canonical query is the escaped key=value pairs in ascending key order
\* joined by '&', and every call for one parameter set gives the same
\* signed body.
C13_CanonicalQueryOrderFree ==
    (call.fn = "canonicalQuery" /\ call.done)
    => /\ call.out = JoinPairs(call.arg, Ascending(call.arg))
       /\ Cardinality(call.bodies) = 1

\* a market order's six parameters were ranged over in two different
\* orders, and the query starts with quoteOrderQty
C13_Witness ==
    /\ call.fn = "canonicalQuery"
    /\ call.done
    /\ call.varied
    /\ Cardinality(DOMAIN call.arg) = 6
    /\ call.first # KeyQuoteOrderQty
    /\ HasPrefix(call.out, KeyQuoteOrderQty \o <<"=">>)

(***************************************************************************)
(* Properties of main's message loop (MainLive).                           *)
(***************************************************************************)
IsPrefix(a, b) == Len(a) <= Len(b) /\ SubSeq(b, 1, Len(a)) = a

\* C14 as stated: HandleMessage is invoked once for every delivered
\* message, in arrival order, the messages buffered when shutdown is
\* signalled included: when the consumer has returned, the messages
\* handled are the messages delivered.
C14_NoMessageLeftBehind ==
    /\ IsPrefix(handled, delivered)
    /\ consumer # "select" => handled = delivered

\* C14 amended: the messages handled so far, followed by those waiting in
\* the channel, are exactly the messages delivered (arrival order, none
\* twice, none skipped); a consumer that returns because the channel was
\* closed has handled all of them; and a delivered message is eventually
\* handled unless shutdown is signalled.  Messages buffered when shutdown
\* is signalled may stay unhandled (C14_Witness).
C14_HandledInArrivalOrder ==
    /\ [](handled \o msgCh = delivered)
    /\ [](\A i, j \in DOMAIN handled : i < j => handled[i].ID < handled[j].ID)
    /\ [](consumer = "closed" => handled = delivered)
    /\ \A i \in 1..MaxUpdates :
          (Len(delivered) >= i) ~> (Len(handled) >= i \/ ctxDone)

\* the consumer returned on the cancelled context after handling a
\* message, leaving a delivered message in the channel
C14_Witness ==
    /\ ctxDone
    /\ consumer = "cancelled"
    /\ Len(handled) >= 1
    /\ Len(msgCh) >= 1
    /\ handled \o msgCh = delivered

\* HandleMessage returned an error for message m
Errored(m) ==
    /\ m \in Msgs
    /\ ~Working(m)
    /\ msgLog[m].result \in {"parse signal", "order submission failed"}

\* C15: a message whose handling fails does not stop the consumer: the
\* consumer goroutine returns on shutdown or on the closed channel only,
\* and a message delivered after a failed one is still handled (unless
\* shutdown is signalled first).
C15_FailureDoesNotStopConsumer ==
    /\ [](consumer # "select" => ctxDone)
    /\ []((\E m \in Msgs : Errored(m)) /\ ~ctxDone => consumer = "select")
    /\ \A i \in 2..MaxUpdates :
          (Len(delivered) >= i /\ \E m \in 1..(i - 1) : Errored(m))
          ~> (Len(handled) >= i \/ ctxDone)

\* one message failed to parse, the next failed to submit, and the one
\* after them went through the risk gate
C15_Witness ==
    \E m, k, n \in Msgs :
        /\ m < n /\ k < n
        /\ msgLog[m].result = "parse signal"
        /\ msgLog[k].result = "order submission failed"
        /\ msgLog[n].evals = 1
        /\ handled[n] = delivered[n]
        /\ ~ctxDone

(***************************************************************************)
(* No retry (SeqSpec).                                                     *)
(***************************************************************************)
\* C16: handling one message makes at most one Submit call, and a Submit
\* call puts at most one order request on the wire; after a failed Submit
\* the handler has returned without a second attempt.
C16_NoRetry ==
    \A m \in Msgs :
        /\ msgLog[m].submits <= 1
        /\ msgLog[m].sends <= msgLog[m].submits
        /\ msgLog[m].result = "order submission failed"
              => /\ ~Working(m)
                 /\ msgLog[m].submits = 1
                 /\ msgLog[m].records = 0

\* a live submission failed after one request on the wire, and the
\* consumer went on to the next message
C16_Witness ==
    \E m, k \in Msgs :
        /\ m < k
        /\ msgLog[m].result = "order submission failed"
        /\ msgLog[m].submits = 1
        /\ msgLog[m].sends = 1

(***************************************************************************)
(* Properties of the template parser (ParserSpec).                         *)
(***************************************************************************)
Parsed == call.fn = "Parse" /\ call.done

\* the text lacks at least one required token as a literal substring
LacksToken(text) ==
    \E i \in DOMAIN cfg.Parser.RequiredTokens :
        ~Contains(text, cfg.Parser.RequiredTokens[i])

\* C18 as stated: every text that lacks a required token fails with the
\* missing-token error, the empty and the all-whitespace texts included.
C18_MissingTokenAlways ==
    (Parsed /\ LacksToken(call.arg)) => call.out.err = "errMissingToken"

\* C18 amended: a text that is not blank and lacks a required token fails
\* with the missing-token error, whether or not it holds a valid link; an
\* empty or all-whitespace text fails with the empty-message error.
C18_MissingToken ==
    Parsed
    => /\ TrimSpace(call.arg) = <<>> => call.out.err = "empty message body"
       /\ (LacksToken(call.arg) /\ TrimSpace(call.arg) # <<>>)
             => call.out.err = "errMissingToken"

\* a text with the first of two required tokens, without the second and
\* without a valid link, failed with the missing-token error
C18_Witness ==
    /\ Parsed
    /\ Len(cfg.Parser.RequiredTokens) = 2
    /\ Contains(call.arg, cfg.Parser.RequiredTokens[1])
    /\ ~Contains(call.arg, cfg.Parser.RequiredTokens[2])
    /\ ~extractLink(cfg.Parser, TrimSpace(call.arg)).ok
    /\ call.out.err = "errMissingToken"

\* C19: for every successfully parsed signal and every non-empty
\* separator, lowercase letters included, the symbol is non-empty and is
\* the pair code with every occurrence of the separator removed, and the
\* pair code is uppercase.
C19_SymbolFromPairCode ==
    (Parsed /\ call.out.err = "" /\ cfg.Parser.PairSeparator # <<>>)
    => /\ call.out.Symbol # <<>>
       /\ call.out.Symbol
            = ReplaceAll(call.out.PairCode, cfg.Parser.PairSeparator, <<>>)
       /\ call.out.PairCode = ToUpper(call.out.PairCode)

\* the raw pair field: the link's path without the prefix and without
\* surrounding slashes
RawPairField(link) ==
    Trim(TrimPrefix(link.Path, cfg.Parser.LinkPathPrefix), {"/"})

\* C20: when the tokens are present, the link is valid and the raw pair
\* field is empty (paths /e/ and /e//), parse fails with the
\* unresolvable-symbol error.
C20_EmptyPairUnresolvable ==
    LET link == extractLink(cfg.Parser, TrimSpace(call.arg))
    IN  ( /\ Parsed
          /\ cfg.Parser.PairSeparator # <<>>
          /\ ~LacksToken(call.arg)
          /\ link.ok
          /\ RawPairField(link) = <<>> )
        => call.out.err = "errMissingSymbol"


\* Parser.extractLink lines 89-102: the segment is not passed over
SegmentMatches(pcfg, segment) ==
    /\ Contains(segment, <<":", "/", "/">>)
    /\ LET u == urlParse(Trim(segment, LinkPunct))
       IN  /\ u.ok
           /\ EqualFold(u.Host, pcfg.LinkHost)
           /\ HasPrefix(u.Path, pcfg.LinkPathPrefix)

Segments == Fields(TrimSpace(call.arg))

Hits == { i \in 1..Len(Segments) : SegmentMatches(cfg.Parser, Segments[i]) }

FirstHit == CHOOSE i \in Hits : \A j \in Hits : i <= j

TokensPresent ==
    /\ TrimSpace(call.arg) # <<>>
    /\ requireTokens(cfg.Parser, TrimSpace(call.arg))

\* C21: of a text with all tokens, the target link is the first segment
\* that holds "://", parses as a URL, has the configured host (whatever
\* the case) and a path starting with the configured prefix: the pair is
\* resolved from that segment and from no other.  Without such a segment
\* the parse fails with errMissingLink.
C21_FirstMatchingLink ==
    (Parsed /\ TokensPresent) =>
        IF Hits = {}
        THEN call.out.err = "errMissingLink"
        ELSE LET link == urlParse(Trim(Segments[FirstHit], LinkPunct))
                 rp == resolvePair(cfg.Parser, link)
             IN  /\ call.out.err # "errMissingLink"
                 /\ rp.err # "" => call.out.err = rp.err
                 /\ (rp.err = "" /\ call.out.err = "") =>
                        call.out.PairCode = ToUpper(rp.pair)

\* a text parsed to the pair of its first matching link, which comes after
\* a segment that was passed over and before another matching link
C21_Witness ==
    /\ Parsed
    /\ TokensPresent
    /\ Cardinality(Hits) >= 2
    /\ \E i \in 1..(FirstHit - 1) : Contains(Segments[i], <<":", "/", "/">>)
    /\ call.out.err = ""
    /\ call.out.Symbol = SymAB

\* a text with all tokens and links to other hosts only fails for the link
C21_WitnessNoMatch ==
    /\ Parsed
    /\ TokensPresent
    /\ Hits = {}
    /\ \E i \in 1..Len(Segments) : Contains(Segments[i], <<":", "/", "/">>)
    /\ call.out.err = "errMissingLink"

(***************************************************************************)
(* Day-boundary reconciliation and the admission decision (GateSpec).      *)
(***************************************************************************)
\* the UTC day a clock value lies on
DayOf(t) == DayLen * (t \div DayLen)

Reconciling == gateCall.op = "record" \/ EvaluatedPositive

\* the counter and the map as reconciliation left them, before the
\* recordExecution that followed added its own execution
CountAfterReset ==
    IF gateCall.op = "record" THEN dailyTrades - 1 ELSE dailyTrades

MapAfterReset(sym) ==
    IF gateCall.op = "record" /\ sym = gateCall.sym
    THEN [known |-> FALSE, at |-> 0]
    ELSE [known |-> sym \in DOMAIN lastTrade,
          at |-> IF sym \in DOMAIN lastTrade THEN lastTrade[sym] ELSE 0]

MapBefore(sym) ==
    [known |-> sym \in DOMAIN gateCall.pre.lastTrade,
     at |-> IF sym \in DOMAIN gateCall.pre.lastTrade
            THEN gateCall.pre.lastTrade[sym] ELSE 0]

\* C22: every recordExecution and every evaluate of a positive notional
\* starts by reconciling the day.  On the first observation the anchor is
\* set to the current UTC day and nothing is reset; on a UTC day after the
\* anchor the counter is zeroed, the timestamp map emptied and the anchor
\* moved to the current day; otherwise nothing changes.  The anchor never
\* moves backwards.
C22_DayReconciliation ==
    Reconciling =>
        LET pre == gateCall.pre
            today == DayOf(gateCall.now)
            others == IF gateCall.op = "record"
                      THEN Symbols \ {gateCall.sym} ELSE Symbols
        IN  /\ dayAnchor >= pre.dayAnchor
            /\ IF pre.dayAnchor = ZeroTime
               THEN /\ dayAnchor = today
                    /\ CountAfterReset = pre.dailyTrades
                    /\ \A sym \in others : MapAfterReset(sym) = MapBefore(sym)
               ELSE IF today > pre.dayAnchor
               THEN /\ dayAnchor = today
                    /\ CountAfterReset = 0
                    /\ \A sym \in others : ~MapAfterReset(sym).known
               ELSE /\ dayAnchor = pre.dayAnchor
                    /\ CountAfterReset = pre.dailyTrades
                    /\ \A sym \in others : MapAfterReset(sym) = MapBefore(sym)

\* a call on the day after the anchor found executions on record and a
\* timestamp of another symbol, and reset both
C22_Witness ==
    /\ Reconciling
    /\ gateCall.pre.dayAnchor # ZeroTime
    /\ DayOf(gateCall.now) > gateCall.pre.dayAnchor
    /\ gateCall.pre.dailyTrades > 0
    /\ \E sym \in Symbols \ {gateCall.sym} : sym \in DOMAIN gateCall.pre.lastTrade
    /\ dayAnchor = DayOf(gateCall.now)
    /\ CountAfterReset = 0

\* the evaluated symbol has a timestamp less than the cooldown back
CooldownDenies ==
    /\ cfg.Risk.CooldownSeconds > 0
    /\ gateCall.sym \in DOMAIN lastTrade
    /\ gateCall.now - lastTrade[gateCall.sym] < cfg.Risk.CooldownSeconds

\* the daily counter has reached the cap
CapDenies ==
    /\ cfg.Risk.MaxDailyTrades > 0
    /\ dailyTrades >= cfg.Risk.MaxDailyTrades

\* C23: evaluate allows exactly when the notional is positive, the symbol
\* is not inside its cooldown window (or no cooldown is configured) and the
\* daily counter is below the cap (or no cap is configured), window and
\* counter being those of the reconciled state; an allowed decision carries
\* the desired notional.  When cooldown and cap both deny, the reason is
\* the cooldown's.
C23_AllowExactlyWhen ==
    gateCall.op = "evaluate" =>
        /\ gateCall.decision.Allow <=>
              (gateCall.notional > 0 /\ ~CooldownDenies /\ ~CapDenies)
        /\ gateCall.decision.Allow =>
              gateCall.decision.Notional = gateCall.notional
        /\ (gateCall.notional > 0 /\ CooldownDenies) =>
              gateCall.decision.Reason = "cooldown_active"
        /\ (gateCall.notional > 0 /\ ~CooldownDenies /\ CapDenies) =>
              gateCall.decision.Reason = "daily_trade_limit"

\* an evaluate that cooldown and cap both deny
C23_Witness ==
    /\ EvaluatedPositive
    /\ CooldownDenies
    /\ CapDenies
    /\ ~gateCall.decision.Allow
    /\ gateCall.decision.Reason = "cooldown_active"

\* an evaluate allowed with a cooldown and a cap configured, after an
\* execution of the same symbol
C23_WitnessAllowed ==
    /\ EvaluatedPositive
    /\ cfg.Risk.CooldownSeconds > 0
    /\ cfg.Risk.MaxDailyTrades > 0
    /\ gateCall.sym \in DOMAIN lastTrade
    /\ gateCall.decision.Allow
    /\ gateCall.decision.Notional = 2

(***************************************************************************)
(* Mutual exclusion of the risk gate's calls (LockSpec).                   *)
(***************************************************************************)
\* the caller is between m.mu.Lock() and the deferred m.mu.Unlock()
InLockedSection(h) ==
    hs[h].pc \in {"eval_locked", "eval_checks", "rec_locked", "rec_stamp",
                  "rec_count"}

\* the risk state a whole call leaves behind: the call gc applied to the
\* state it found
WholeCall(gc) ==
    IF gc.op = "evaluate"
    THEN evaluateLocked(cfg.Risk, gc.pre, gc.sym, gc.notional, gc.now).st
    ELSE IF gc.op = "record" THEN recordLocked(gc.pre, gc.sym, gc.now)
    ELSE gc.pre

\* the risk state while caller h is in its locked section: what the call
\* before it left behind, then what h itself has done so far
StateSeenBy(h) ==
    LET found == gateCall.pre
        reset == resetDay(found, hs[h].now)
    IN  CASE hs[h].pc \in {"eval_locked", "rec_locked"} -> WholeCall(gateCall)
          [] hs[h].pc \in {"eval_checks", "rec_stamp"} -> reset
          [] hs[h].pc = "rec_count" ->
                [reset EXCEPT !.lastTrade =
                    MapSet(reset.lastTrade, hs[h].sig.Symbol, hs[h].now)]

SignatureField == <<"&", "s", "i", "g", "n", "a", "t", "u", "r", "e", "=">>

\* the part of a body that precedes "&signature=<digest>"
SignedPart(body) == SubSeq(body, 1, Len(body) - Len(SignatureField) - 1)

\* C25: every request body is the canonical query, then "&signature=",
\* then the digest; and the digest is the HMAC keyed with the account
\* secret over exactly the string that precedes "&signature=" in the
\* body, which is the escaped pairs in ascending key order.
C25_SignatureOverCanonicalQuery ==
    (call.fn = "canonicalQuery" /\ call.done) =>
        \A body \in call.bodies :
            LET n == Len(body)
                signed == SignedPart(body)
            IN  /\ n > Len(SignatureField) + 1
                /\ signed = call.out
                /\ signed = JoinPairs(call.arg, Ascending(call.arg))
                /\ SubSeq(body, Len(signed) + 1, n - 1) = SignatureField
                /\ body[n] = <<"hmac-sha256", call.apiSecret, signed>>

\* a body was built for parameters that need escaping, ranged over
\* starting from a key that is not the smallest
C25_Witness ==
    /\ call.fn = "canonicalQuery"
    /\ call.done
    /\ call.arg \in OddParams
    /\ call.first # Ascending(call.arg)[1]
    /\ call.apiSecret = "secret-2"
    /\ \E body \in call.bodies :
          /\ Contains(SignedPart(body), <<"%", "2", "5">>)
          /\ body[Len(body)][3] = SignedPart(body)

\* the raw pair field in upper case, hyphens and encoded underscores
\* replaced by the separator
NormalizedPair(link) ==
    ReplaceAll(ReplaceAll(ToUpper(RawPairField(link)), <<"-">>,
                          cfg.Parser.PairSeparator),
               <<"%", "5", "F">>, cfg.Parser.PairSeparator)

\* C26: the pair field is normalized before the separator is looked for.
\* Of a text with all tokens and a valid link with a pair field: with an
\* empty separator the parse fails with errInvalidSeparator; else, when the
\* normalized field holds the separator, the parse succeeds with the
\* normalized field as pair code (so A-B gives A_B and the symbol AB); else
\* it fails for the missing separator.
C26_NormalizedBeforeSeparatorCheck ==
    LET link == extractLink(cfg.Parser, TrimSpace(call.arg))
        sep == cfg.Parser.PairSeparator
    IN  ( /\ Parsed
          /\ TokensPresent
          /\ link.ok
          /\ RawPairField(link) # <<>>
          /\ ToUpper(sep) = sep )
        => IF sep = <<>>
           THEN call.out.err = "errInvalidSeparator"
           ELSE IF Contains(NormalizedPair(link), sep)
           THEN /\ call.out.err \in {"", "errMissingSymbol"}
                /\ call.out.err = "" =>
                     /\ call.out.PairCode = NormalizedPair(link)
                     /\ call.out.Symbol =
                          ReplaceAll(NormalizedPair(link), sep, <<>>)
           ELSE call.out.err = "pair does not contain separator"

(***************************************************************************)
(* Termination after the shutdown signal (ShutdownLive).                   *)
(***************************************************************************)
ListenerReturned == listener.pc = "returned"

ConsumerReturned == consumer # "select"

\* the listener waits in "out <- msg" on a full channel nobody reads
ListenerStuck ==
    /\ listener.pc = "send"
    /\ Head(listener.updates).Text # <<>>
    /\ Len(msgCh) = QueueCap
    /\ ConsumerReturned

\* C27: once shutdown is signalled, Listener.Run returns, msgCh is closed
\* and the consumer goroutine returns, whatever the state the signal came
\* in.
C27_EveryGoroutineTerminates ==
    ctxDone ~> (ListenerReturned /\ chClosed /\ ConsumerReturned)

(***************************************************************************)
(* The daily cap under the single consumer (SeqSpec).                      *)
(***************************************************************************)
\* C28: with messages handled one at a time and a daily cap configured,
\* the daily counter never exceeds the cap, and no more executions than
\* the cap are recorded on one UTC day, also when the day changes between
\* the evaluate and the recordExecution of a message.
C28_DailyCapNeverExceeded ==
    cfg.Risk.MaxDailyTrades > 0 =>
        /\ dailyTrades <= cfg.Risk.MaxDailyTrades
        /\ hCount <= cfg.Risk.MaxDailyTrades

\* the cap is reached and a further message was denied for it
C28_Witness ==
    /\ cfg.Risk.MaxDailyTrades > 0
    /\ dailyTrades = cfg.Risk.MaxDailyTrades
    /\ hCount = cfg.Risk.MaxDailyTrades
    /\ \E m \in DOMAIN msgLog :
          /\ msgLog[m].decision.Reason = "daily_trade_limit"
          /\ msgLog[m].records = 0

\* a message evaluated on the anchor's day is recorded on the next day
C28_WitnessDayChange ==
    /\ hs[1].pc = "rec_locked"
    /\ dailyTrades > 0
    /\ Truncate(hs[1].now) > dayAnchor

(***************************************************************************)
(* The stored timestamps under concurrent handlers (Spec).                 *)
(***************************************************************************)
TimestampsAfterAnchor ==
    \A sym \in DOMAIN lastTrade : lastTrade[sym] >= dayAnchor

TimestampsNeverGoBack ==
    \A sym \in (DOMAIN lastTrade) \cap (DOMAIN lastTrade') :
        lastTrade'[sym] >= lastTrade[sym]

\* C29: whatever the interleaving of the handlers, every timestamp of the
\* per-symbol map lies on or after the day anchor, and no step replaces a
\* timestamp by an earlier one.
C29_TimestampsConsistent ==
    /\ []TimestampsAfterAnchor
    /\ [][TimestampsNeverGoBack]_vars

(***************************************************************************)
(* Positivity of the resolved notional (SizingSpec).                       *)
(***************************************************************************)
\* Config.Validate, the trading amounts: default > 0, maximum >= default
ValidTrading ==
    /\ cfg.Trading.DefaultBaseNotional > 0
    /\ cfg.Trading.MaxNotional >= cfg.Trading.DefaultBaseNotional

\* C30: with a configuration that Validate accepts and whatever the values
\* of a symbol's override, the resolved notional is strictly positive;
\* hence Evaluate, called with it, does not fail fast with the non-positive
\* reason, and an allowed decision carries a positive notional to the
\* executor, which the dry-run executor does not refuse.
C30_ResolvedNotionalPositive ==
    (call.fn = "resolveNotional" /\ call.done /\ ValidTrading) =>
        LET r == Evaluate(cfg.Risk, RiskState, call.arg, call.out, clock)
        IN  /\ call.out > 0
            /\ r.decision # NonPositiveDecision
            /\ r.decision.Allow
            /\ r.decision.Notional > 0
            /\ DryRunSubmit([Symbol |-> call.arg,
                             Notional |-> r.decision.Notional], clock).err = ""

\* an override with a negative default and a zero maximum leaves the
\* configured default in place
C30_Witness ==
    /\ call.fn = "resolveNotional"
    /\ call.done
    /\ ValidTrading
    /\ HasOverride(call.arg)
    /\ cfg.Overrides[call.arg].DefaultBaseNotional < 0
    /\ cfg.Overrides[call.arg].MaxNotional = 0
    /\ call.out = cfg.Trading.DefaultBaseNotional

=============================================================================
